---- MODULE Spec2Model ----
(***************************************************************************)
(* A model of the xHCI core of the dekopos kernel                          *)
(* (src/kernel/src/devices/usb): the TRB rings, the port/slot enumeration  *)
(* machine of DeviceManager and of HostController, and the properties the  *)
(* specification states about them.                                        *)
(*                                                                         *)
(* Each unit has its own specification; the variables of the other units   *)
(* keep their constructor value under it:                                  *)
(*   SpecProducer   Producer<Trb> (xhci/ring.rs): new, then push           *)
(*   SpecEventRing  EventRing and its iterator, driven as process_events   *)
(*                  drives them, with the xHC writing events               *)
(*   SpecPortStatusChange, SpecCommandCompletion                           *)
(*                  the event handlers of DeviceManager (driver.rs) and of *)
(*                  HostController (controller.rs), applied to a manager   *)
(*                  value and the port registers                           *)
(***************************************************************************)
EXTENDS Integers, Sequences, FiniteSets

VARIABLES
    pr,     \* the Producer ring: [cap, head, buf, cycle_bit, write_index]
    prlog,  \* what its caller did and saw: [pushed, rets]
    er,     \* the EventRing: [cap, head, buf, cycle_bit]
    xhc,    \* the xHC's side of the event ring: [enq, pcs, used, count, erdp]
    it,     \* the EventRingIterator of the consume call in progress
    erlog,  \* the last consume call completed: [done, start, d, yielded, clean]
    port_regs,  \* the PORTSC registers; entry i belongs to port i + 1
    dm,     \* the DeviceManager (driver.rs)
    hc,     \* the HostController (controller.rs)
    last,   \* the last handler call: [unit, event, ret, dm, hc, port_regs]
    drv,    \* a Driver (driver.rs) with its Device
    drvlog, \* the last call on it: [op, te, ret, pre, overwrites, issued]
    boot,   \* the bring-up of the xHC: the position of start_xhc, the
            \* registers it polls and writes, and what it did so far
    intr    \* the interrupt path: the xhci handler, the message queue, the
            \* local APIC and the loop that takes the messages

vars == <<pr, prlog, er, xhc, it, erlog, port_regs, dm, hc, last, drv, drvlog,
          boot, intr>>
prVars == <<pr, prlog>>
erVars == <<er, xhc, it, erlog>>
portVars == <<port_regs, dm, hc, last>>
drvVars == <<drv, drvlog>>
sysVars == <<boot, intr>>

(***************************************************************************)
(* Bounds of the model.                                                    *)
(***************************************************************************)
\* largest ring capacity explored (the code uses CR_SIZE = TR_SIZE = 32)
MaxCap == 4
\* ring allocations are 64-byte aligned: heads 64 * 1 .. 64 * MaxHeadBlocks
MaxHeadBlocks == 2
\* number of pushes explored on a Producer
MaxPushes == 6
\* largest event ring length explored (the code uses ER_SIZE = 32)
MaxErCap == 6
\* number of events the xHC writes
MaxHwEvents == 11
\* number of root hub ports, i.e. of port register sets (port ids 1 .. MaxPorts)
MaxPorts == 3
\* number of device slots enabled, i.e. of doorbells handed to DeviceManager
MaxSlots == 2

\* capacity of the Transfer Ring explored (the code uses TR_SIZE = 32; a
\* Driver pushes at most six TRBs in its life)
MaxTrCap == 8
\* the Transfer Ring slots a Transfer Event may point to: 0 .. MaxTeSlot
MaxTeSlot == 6
\* how often the memory of the Transfer Ring changes under the driver
MaxOverwrites == 1
\* device context pointers handed to register: CtxAddr(0 .. MaxCtxPtrs)
MaxCtxPtrs == 2
\* number of calls of control_transfer / get_descriptor explored
MaxTransferCalls == 3
\* largest bNumConfigurations of a plugged device
MaxConfigs == 4
\* number of control transfers issued one after the other on one endpoint
MaxIssued == 17

(***************************************************************************)
(* TRBs.  A TRB is modelled by the fields the driver reads or writes:      *)
(* its type, its cycle bit (word 3 bit 0), its 64-bit parameter (words 0   *)
(* and 1), the toggle-cycle flag of a Link TRB, and its slot id.           *)
(***************************************************************************)
Trb(type, cycle, param, tc, slot) ==
    [type |-> type, cycle |-> cycle, param |-> param, tc |-> tc, slot |-> slot]

\* [0; 4]: what Ring::new fills a ring with.  TRB type 0 is reserved.
ZeroTrb == Trb("Reserved", FALSE, 0, FALSE, 0)

\* Link::new() followed by set_toggle_cycle(): nothing else is set, so the
\* ring segment pointer and the cycle bit keep their initial zero.
link_trb_with_toggle == Trb("Link", FALSE, 0, TRUE, 0)

\* SoftwareProduceTrb::set_cycle_bit
set_cycle_bit(trb, pcs) == [trb EXCEPT !.cycle = pcs]

\* The TRBs a caller hands to push: freshly built, cycle bit clear.
CallerTrbs == { Trb("EnableSlot", FALSE, 0, FALSE, 0), Trb("Noop", FALSE, 0, FALSE, 0) }

(***************************************************************************)
(* Ring<Trb>                                                               *)
(***************************************************************************)
\* mem::size_of::<Trb>() with Trb the Allowed enum: the 16 bytes of the
\* largest variant plus the enum's tag, at alignment 4.
elem_size == 20

Ring_last_index(r) == r.cap - 1

Ring_addr_at(r, index) == r.head + index * elem_size

Ring_set(r, trb, index) == [r EXCEPT !.buf[index] = trb]

(***************************************************************************)
(* Producer<Trb>                                                           *)
(***************************************************************************)
Producer_new(capacity, head) ==
    [cap |-> capacity, head |-> head,
     buf |-> [i \in 0 .. capacity - 1 |-> ZeroTrb],
     cycle_bit |-> TRUE, write_index |-> 0]

producer_cycle_state(p) == p.cycle_bit

\* A push that inserts the Link TRB one slot early, over the TRB just written.
Producer_push_LinkEarly(p, trb) ==
    LET stamped == set_cycle_bit(trb, producer_cycle_state(p))
        p1 == Ring_set(p, stamped, p.write_index)
        addr == Ring_addr_at(p, p.write_index)
        wi == p.write_index + 1
    IN  IF wi = Ring_last_index(p)
        THEN [ring |-> [Ring_set(p1, link_trb_with_toggle, wi - 1) EXCEPT !.write_index = 0],
              ret |-> addr]
        ELSE [ring |-> [p1 EXCEPT !.write_index = wi], ret |-> addr]

\* A push that never inserts a Link TRB: the cursor runs through every slot
\* of the ring, the last one included.
Producer_push_NoLink(p, trb) ==
    LET stamped == set_cycle_bit(trb, producer_cycle_state(p))
        p1 == Ring_set(p, stamped, p.write_index)
        addr == Ring_addr_at(p, p.write_index)
        wi == p.write_index + 1
    IN  [ring |-> [p1 EXCEPT !.write_index = wi % p.cap], ret |-> addr]

\* Producer::push: the new ring and the address returned.
Producer_push(p, trb) ==
    LET stamped == set_cycle_bit(trb, producer_cycle_state(p))
        p1 == Ring_set(p, stamped, p.write_index)
        addr == Ring_addr_at(p, p.write_index)
        wi == p.write_index + 1
    IN  IF wi = Ring_last_index(p)
        THEN [ring |-> [Ring_set(p1, link_trb_with_toggle, wi) EXCEPT !.write_index = 0],
              ret |-> addr]
        ELSE [ring |-> [p1 EXCEPT !.write_index = wi], ret |-> addr]

\* ring allocations are 64-byte aligned
HeadAddrs == { 64 * k : k \in 1 .. MaxHeadBlocks }

\* the bring-up and the interrupt path before the kernel starts them
NotStarted == [pc |-> "off"]

\* the Producer and its caller's log right after construction
PrNew == Producer_new(2, 64)
PrLogNew == [pushed |-> <<>>, rets |-> <<>>]

(***************************************************************************)
(* EventRing and EventRingIterator                                         *)
(***************************************************************************)
\* the TRB types TrbE::try_from accepts
EventTypes == { "PortStatusChange", "CommandCompletion", "TransferEvent", "HostController" }

\* EventRing::new_primary: a zeroed ring, consumer cycle state 1
EventRing_new_primary(capacity, head) ==
    [cap |-> capacity, head |-> head,
     buf |-> [i \in 0 .. capacity - 1 |-> ZeroTrb],
     cycle_bit |-> TRUE]

consumer_cycle_state(e) == e.cycle_bit

toggle_consumer_cycle_state(e) == [e EXCEPT !.cycle_bit = ~e.cycle_bit]

\* Ring<TrbE>::get: buf[index].try_into().unwrap().  It panics when index is
\* past the buffer and when the slot does not hold an event TRB.
Ring_get(e, index) ==
    IF index \in 0 .. e.cap - 1 /\ e.buf[index].type \in EventTypes
    THEN [ok |-> TRUE, trb |-> e.buf[index]]
    ELSE [ok |-> FALSE, trb |-> ZeroTrb]

\* EventRingIterator::new: the fields of the iterator
EventRingIterator_new(e, start_addr) ==
    [index |-> (start_addr - e.head) \div 16, consumed |-> FALSE]

\* EventRingIterator::dequeue_pointer (called once consumed)
dequeue_pointer(e, i) == Ring_addr_at(e, i.index)

None == [some |-> FALSE, trb |-> ZeroTrb]
Some(trb) == [some |-> TRUE, trb |-> trb]

\* Iterator::next for EventRingIterator: the ring, the iterator, the item
\* returned, and whether the call panicked instead of returning.
EventRingIterator_next(e, i) ==
    IF i.consumed THEN [er |-> e, it |-> i, item |-> None, panic |-> FALSE]
    ELSE LET g == Ring_get(e, i.index)
         IN  IF ~g.ok THEN [er |-> e, it |-> i, item |-> None, panic |-> TRUE]
             ELSE IF g.trb.cycle = consumer_cycle_state(e)
             THEN IF i.index = Ring_last_index(e)
                  THEN [er |-> toggle_consumer_cycle_state(e),
                        it |-> [i EXCEPT !.index = 0],
                        item |-> Some(g.trb), panic |-> FALSE]
                  ELSE [er |-> e, it |-> [i EXCEPT !.index = i.index + 1],
                        item |-> Some(g.trb), panic |-> FALSE]
             ELSE [er |-> e, it |-> [i EXCEPT !.consumed = TRUE],
                   item |-> None, panic |-> FALSE]

\* EventRing::index_of: the index, or a failed assertion.  addr must lie
\* above the head and be a multiple of elem_size; head_addr - addr is then
\* a u64 subtraction below zero, which panics where overflow is checked
\* and otherwise wraps to 2^64 - (addr - head_addr), whose quotient by
\* elem_size is no index of the ring.
EventRing_index_of(e, addr) ==
    IF ~(addr > e.head) THEN [ok |-> FALSE, index |-> 0]
    ELSE IF addr % elem_size # 0 THEN [ok |-> FALSE, index |-> 0]
    ELSE IF e.head - addr < 0 THEN [ok |-> FALSE, index |-> 0]
    ELSE IF (e.head - addr) \div elem_size < e.cap
    THEN [ok |-> TRUE, index |-> (e.head - addr) \div elem_size]
    ELSE [ok |-> FALSE, index |-> 0]

\* EventRing::is_unprocessed: the answer, or the panic of index_of or get
is_unprocessed(e, pointer) ==
    LET i == EventRing_index_of(e, pointer)
    IN  IF ~i.ok \/ ~Ring_get(e, i.index).ok THEN [ok |-> FALSE, value |-> FALSE]
        ELSE [ok |-> TRUE,
              value |-> Ring_get(e, i.index).trb.cycle = consumer_cycle_state(e)]

\* Erdp::event_ring_dequeue_pointer: the register without its low four bits
event_ring_dequeue_pointer(x) == x.erdp - (x.erdp % 16)

(***************************************************************************)
(* Ports, port registers and events                                        *)
(***************************************************************************)
\* the indices of the tables sized by the number of port register sets;
\* events carry the port ids 1 .. MaxPorts
PortIdx == 0 .. MaxPorts - 1
SlotIds == 1 .. MaxSlots

\* the fields of PORTSC the handlers read or write: current connect status,
\* connect status change, port enabled, port reset change, port reset
Portsc(ccs, csc, ped, prc, prst) ==
    [ccs |-> ccs, csc |-> csc, ped |-> ped, prc |-> prc, pr |-> prst]

Disconnected == Portsc(FALSE, FALSE, FALSE, FALSE, FALSE)
JustConnected == Portsc(TRUE, TRUE, FALSE, FALSE, FALSE)
InReset == Portsc(TRUE, FALSE, FALSE, FALSE, TRUE)
ResetDone == Portsc(TRUE, FALSE, TRUE, TRUE, FALSE)
PortscValues == { Disconnected, JustConnected, InReset, ResetDone }

PortRegsNew == [i \in PortIdx |-> Disconnected]

\* the register set of port p: the xHC numbers ports from 1 and lays their
\* register sets out from entry 0
OwnPortsc(regs, p) == regs[p - 1]

Phases ==
    { "NotConnected", "WaitingAddressed", "Resetting", "EnablingSlot",
      "AddressingDevice", "InitializingDevice", "ConfiguringEndpoints",
      "Configured" }

\* the port speed ids get_max_packet_size is asked about: 1 Full-Speed,
\* 3 High-Speed
PortSpeeds == { 1, 3 }

PortStatusChange(port_id) ==
    [type |-> "PortStatusChange", port_id |-> port_id, code |-> "Success",
     slot_id |-> 0, cmd |-> "None", speed |-> 0]

\* cmd is what read_trb decodes at the command TRB pointer; speed is what
\* get_port_speed reads from the xHC while the completion is handled
CommandCompletion(code, slot_id, cmd, speed) ==
    [type |-> "CommandCompletion", port_id |-> 0, code |-> code,
     slot_id |-> slot_id, cmd |-> cmd, speed |-> speed]

\* Result<Option<TrbC>>, or a panic
Ok(cmd) == [kind |-> "Ok", err |-> "", cmd |-> cmd]
Err(e) == [kind |-> "Err", err |-> e, cmd |-> None]
Panic == [kind |-> "Panic", err |-> "", cmd |-> None]

\* utils::get_max_packet_size: unimplemented!() for Full-Speed
get_max_packet_size_panics(speed) == speed = 1

(***************************************************************************)
(* DeviceManager (driver.rs)                                               *)
(***************************************************************************)
NoDriver == [present |-> FALSE, state |-> "", dev_ctx |-> 0, inp_ctx |-> 0,
             port |-> 0, speed |-> 0, ep0 |-> FALSE]

\* the k-th context the 64-byte aligned context allocator hands out
CtxAddr(k) == 4096 + 64 * k

\* Driver::new(Device::new_with_ep0_enabled(dev_ctx, inp_ctx)), with the
\* input context as address_device filled it
\* DeviceContextBaseAddressArray (xhci/context.rs): capacity pointers, all
\* null; new asserts that capacity is in 1 ..= 255
DeviceContextBaseAddressArray_new(capacity) == [i \in 0 .. capacity - 1 |-> 0]

\* register: the array and what the call returns.  i = 0 fails the
\* assertion, i beyond the array is an index out of bounds; any other
\* entry is overwritten, null or not.
register(inner, i, device) ==
    IF i = 0 THEN [inner |-> inner, ret |-> Panic]
    ELSE IF i \notin DOMAIN inner THEN [inner |-> inner, ret |-> Panic]
    ELSE [inner |-> [inner EXCEPT ![i] = device], ret |-> Ok(None)]

Driver_new(dev_ctx, inp_ctx, port_id, speed) ==
    [present |-> TRUE, state |-> "Uninvoked", dev_ctx |-> dev_ctx,
     inp_ctx |-> inp_ctx, port |-> port_id, speed |-> speed, ep0 |-> TRUE]

\* An Option of a port or slot id is modelled by the id, None by 0:
\* set_addressing_port asserts port_id > 0, and the xHC numbers slots from 1.
DeviceManager_new ==
    [port_phases |-> [i \in PortIdx |-> "NotConnected"],
     port_to_slot |-> [i \in PortIdx |-> 0],
     addressing_port |-> 0,
     drivers |-> [i \in 0 .. MaxSlots |-> NoDriver],
     dcbaa |-> DeviceContextBaseAddressArray_new(MaxSlots + 1),
     allocs |-> 0]

\* Each operation yields the manager, the port registers and the value
\* returned.
Res(m, regs, ret) == [m |-> m, regs |-> regs, ret |-> ret]

try_get_addressing_port_AsPhaseError(d) ==
    IF d.addressing_port = 0 THEN Err("InvalidPortPhase") ELSE Ok(None)

try_get_addressing_port(d) ==
    IF d.addressing_port = 0
    THEN Err("NoAddressingPortFoundWhileExpected")
    ELSE Ok(None)

\* init_port: the closure over PORTSC of entry port_id
init_port(regs, port_id) ==
    IF regs[port_id].ccs /\ regs[port_id].csc
    THEN [regs EXCEPT ![port_id].pr = TRUE, ![port_id].csc = FALSE]
    ELSE regs

DM_reset_port(d, regs, port_id) ==
    IF ~regs[port_id].ccs THEN Res(d, regs, Ok(None))
    ELSE IF d.addressing_port # 0
    THEN LET a == d.addressing_port
         IN  IF d.port_phases[a] \in { "NotConnected", "WaitingAddressed" }
             THEN Res([d EXCEPT !.addressing_port = a,
                                !.port_phases[a] = "Resetting"],
                      init_port(regs, a), Ok(None))
             ELSE Res(d, regs, Err("InvalidPortPhase"))
    ELSE Res(d, regs, Ok(None))

DM_enable_slot(d, regs, port_id) ==
    IF regs[port_id].ped /\ regs[port_id].prc
    THEN Res([d EXCEPT !.port_phases[port_id] = "EnablingSlot"],
             [regs EXCEPT ![port_id].prc = FALSE],
             Ok(Some(Trb("EnableSlot", FALSE, 0, FALSE, 0))))
    ELSE Res(d, regs, Ok(None))

\* a port_status_change that takes EnablingSlot for Resetting
DM_port_status_change_Lenient(d, regs, port_id) ==
    IF port_id \notin PortIdx THEN Res(d, regs, Panic)
    ELSE IF d.port_phases[port_id] = "NotConnected" THEN DM_reset_port(d, regs, port_id)
    ELSE IF d.port_phases[port_id] \in { "Resetting", "EnablingSlot" }
    THEN DM_enable_slot(d, regs, port_id)
    ELSE Res(d, regs, Err("InvalidPortPhase"))

\* port_phases and port_regs have MaxPorts entries: indexing them with port
\* id MaxPorts panics
DM_port_status_change(d, regs, port_id) ==
    IF port_id \notin PortIdx THEN Res(d, regs, Panic)
    ELSE IF d.port_phases[port_id] = "NotConnected" THEN DM_reset_port(d, regs, port_id)
    ELSE IF d.port_phases[port_id] = "Resetting" THEN DM_enable_slot(d, regs, port_id)
    ELSE Res(d, regs, Err("InvalidPortPhase"))

\* a set_port_to_slot that does not look at the Driver table
DM_set_port_to_slot_NoDriverCheck(d, port_id, slot_id) ==
    IF slot_id \notin PortIdx THEN [m |-> d, ret |-> Panic]
    ELSE IF d.port_to_slot[slot_id] # 0
    THEN [m |-> d, ret |-> Err("PortAlreadyMappedToSlot")]
    ELSE [m |-> [d EXCEPT !.port_to_slot[port_id] = slot_id], ret |-> Ok(None)]

\* set_port_to_slot: the manager and the Result
DM_set_port_to_slot(d, port_id, slot_id) ==
    IF slot_id \notin PortIdx THEN [m |-> d, ret |-> Panic]
    ELSE IF d.port_to_slot[slot_id] # 0
    THEN [m |-> d, ret |-> Err("PortAlreadyMappedToSlot")]
    ELSE IF d.drivers[slot_id].present
    THEN [m |-> d, ret |-> Err("DeviceAlreadyAllocatedForSlot")]
    ELSE [m |-> [d EXCEPT !.port_to_slot[port_id] = slot_id], ret |-> Ok(None)]

\* an address_device that registers the Driver whatever set_port_to_slot
\* returned
DM_address_device_Unchecked(d, regs, port_id, slot_id, speed) ==
    LET dev_ctx == CtxAddr(d.allocs)
        inp_ctx == CtxAddr(d.allocs + 1)
        reg == register(d.dcbaa, slot_id, dev_ctx)
        d3 == [d EXCEPT !.port_phases[port_id] = "AddressingDevice",
                        !.allocs = d.allocs + 2,
                        !.dcbaa = reg.inner,
                        !.drivers[slot_id] = Driver_new(dev_ctx, inp_ctx, port_id, speed)]
    IN  IF get_max_packet_size_panics(speed) THEN Res(d, regs, Panic)
        ELSE IF reg.ret.kind # "Ok" THEN Res(d, regs, Panic)
        ELSE Res(d3, regs, Ok(Some(Trb("AddressDevice", FALSE, inp_ctx, FALSE, slot_id))))

DM_address_device(d, regs, port_id, slot_id, speed) ==
    LET s == DM_set_port_to_slot(d, port_id, slot_id)
        d1 == [s.m EXCEPT !.port_phases[port_id] = "AddressingDevice"]
        dev_ctx == CtxAddr(d.allocs)
        inp_ctx == CtxAddr(d.allocs + 1)
        d2 == [d1 EXCEPT !.allocs = d.allocs + 2]
        reg == register(d2.dcbaa, slot_id, dev_ctx)
        d3 == [d2 EXCEPT !.dcbaa = reg.inner,
                         !.drivers[slot_id] = Driver_new(dev_ctx, inp_ctx, port_id, speed)]
    IN  IF s.ret.kind # "Ok" THEN Res(s.m, regs, s.ret)
        ELSE IF get_max_packet_size_panics(speed) THEN Res(d2, regs, Panic)
        ELSE IF reg.ret.kind # "Ok" THEN Res(d2, regs, Panic)
        ELSE Res(d3, regs, Ok(Some(Trb("AddressDevice", FALSE, inp_ctx, FALSE, slot_id))))

DM_command_completion(d, regs, cc) ==
    IF cc.code = "Invalid" THEN Res(d, regs, Err("InvalidCompletionCode"))
    ELSE IF cc.code # "Success" THEN Res(d, regs, Err("UnexpectedCompletionCode"))
    ELSE IF try_get_addressing_port(d).kind # "Ok"
    THEN Res(d, regs, try_get_addressing_port(d))
    ELSE LET port_id == d.addressing_port
             phase == d.port_phases[port_id]
         IN  IF cc.cmd = "Invalid" THEN Res(d, regs, Err("UnexpectedTrbContent"))
             ELSE IF cc.cmd = "EnableSlot" /\ phase = "EnablingSlot"
             THEN DM_address_device(d, regs, port_id, cc.slot_id, cc.speed)
             ELSE IF cc.cmd = "AddressDevice" /\ phase = "AddressingDevice"
             THEN Res(d, regs, Panic)
             ELSE IF cc.cmd = "ConfigureEndpoint" /\ phase = "ConfiguringEndpoints"
             THEN Res(d, regs, Panic)
             ELSE Res(d, regs, Err("InvalidPortPhase"))

(***************************************************************************)
(* HostController (controller.rs), with the Producer of usb/ring.rs as its *)
(* Command Ring                                                            *)
(***************************************************************************)
HCPhases == Phases \ { "InitializingDevice" }

\* Producer::push of usb/ring.rs: the TRB is stored as it is handed in
HC_push(p, trb) ==
    LET p1 == Ring_set(p, trb, p.write_index)
        wi == p.write_index + 1
    IN  IF wi = Ring_last_index(p)
        THEN [Ring_set(p1, link_trb_with_toggle, wi) EXCEPT !.write_index = 0]
        ELSE [p1 EXCEPT !.write_index = wi]

\* new_inner: addressing_port 0 stands for "no port"; rung counts the writes
\* to doorbell 0
HostController_new ==
    [port_phases |-> [i \in PortIdx |-> "NotConnected"],
     port_to_slot |-> [i \in PortIdx |-> 0],
     addressing_port |-> 0,
     cr |-> Producer_new(MaxCap, 64),
     rung |-> 0]

ring_doorbell(h) == [h EXCEPT !.rung = h.rung + 1]

HC_reset_port(h, regs, port_id) ==
    IF ~regs[port_id].ccs THEN Res(h, regs, Ok(None))
    ELSE IF h.addressing_port = 0 THEN Res(h, regs, Ok(None))
    ELSE IF h.port_phases[port_id] \in { "NotConnected", "WaitingAddressed" }
    THEN Res([h EXCEPT !.addressing_port = port_id,
                       !.port_phases[port_id] = "Resetting"],
             init_port(regs, port_id), Ok(None))
    ELSE Res(h, regs, Err("InvalidPortPhase"))

HC_enable_slot(h, regs, port_id) ==
    IF regs[port_id].ped /\ regs[port_id].prc
    THEN Res(ring_doorbell(
                 [h EXCEPT !.port_phases[port_id] = "EnablingSlot",
                           !.cr = HC_push(h.cr, Trb("EnableSlot", FALSE, 0, FALSE, 0))]),
             [regs EXCEPT ![port_id].prc = FALSE], Ok(None))
    ELSE Res(h, regs, Ok(None))

HC_port_status_change(h, regs, port_id) ==
    IF port_id \notin PortIdx THEN Res(h, regs, Panic)
    ELSE IF h.port_phases[port_id] = "NotConnected" THEN HC_reset_port(h, regs, port_id)
    ELSE IF h.port_phases[port_id] = "Resetting" THEN HC_enable_slot(h, regs, port_id)
    ELSE Res(h, regs, Err("InvalidPortPhase"))

HC_set_port_to_slot(h, port_id, slot_id) ==
    IF h.port_to_slot[port_id] # 0
    THEN [m |-> h, ret |-> Err("SlotAlreadyUsed")]
    ELSE [m |-> [h EXCEPT !.port_to_slot[port_id] = slot_id], ret |-> Ok(None)]

assign_slot_and_addr_to_device(h, regs, port_id, slot_id, speed) ==
    LET s == HC_set_port_to_slot(h, port_id, slot_id)
        h1 == [s.m EXCEPT !.port_phases[port_id] = "AddressingDevice",
                          !.cr = HC_push(h.cr, Trb("AddressDevice", FALSE, 0, FALSE, slot_id))]
    IN  IF s.ret.kind # "Ok" THEN Res(s.m, regs, s.ret)
        ELSE IF get_max_packet_size_panics(speed) THEN Res(s.m, regs, Panic)
        ELSE Res(ring_doorbell(h1), regs, Ok(None))

HC_command_completion(h, regs, cc) ==
    IF cc.code = "Invalid" THEN Res(h, regs, Err("UnexpectedCompletionCode"))
    ELSE IF cc.cmd = "Invalid" THEN Res(h, regs, Err("UnexpectedTrbContent"))
    ELSE IF cc.cmd = "EnableSlot"
    THEN LET port_id == h.addressing_port
         IN  IF h.port_phases[port_id] # "EnablingSlot"
             THEN Res(h, regs, Err("InvalidPortPhase"))
             ELSE assign_slot_and_addr_to_device(h, regs, port_id, cc.slot_id, cc.speed)
    ELSE IF cc.cmd \in { "AddressDevice", "ConfigureEndpoint" }
    THEN Res(h, regs, Panic)
    ELSE Res(h, regs, Err("InvalidPortPhase"))

(***************************************************************************)
(* Driver (driver.rs) and its Device (xhci/device.rs): the control         *)
(* transfers on endpoint 0, the issuer map and the initialization state.   *)
(***************************************************************************)
NUM_OF_ENDPOINTS == 16
\* the capacity of issuers: LinearMap<u64, Issuer, 16>
IssuerCap == 16
DeviceDescriptor_SIZE == 18
ConfigurationDescriptor_SIZE == 9
\* the buffer get_config_desc allocates
ConfigBufLen == 128

\* EndpointId(1): endpoint index 0, direction In
DEFAULT_CONTROL == 1
EndpointId_as_index(id) == (id \div 2) % 16
EndpointId_direction(id) == IF id % 2 = 1 THEN "In" ELSE "Out"

RequestCode_GetDescriptor == 6
DescriptorType_Device == 1
DescriptorType_Configuration == 2
\* (Recipient::Device, Type::Standard, Direction::In) as bmRequestType
RequestType_DeviceStandardIn == 128
Recipients == { 0, 1, 2, 3, 31 }
RequestCodes ==
    { 0, 1, 3, 5, 6, 7, 8, 9, 10, 11, 12, 13, 14, 15, 16, 17, 18, 19, 20, 21,
      22, 23, 26, 27, 48, 49 }

\* A transfer TRB, by the fields the driver sets: the setup packet of a
\* Setup Stage TRB (words 0 and 1) and its transfer type, the buffer pointer
\* and length of a Data Stage TRB, interrupt-on-completion and direction.
TrbT(type) ==
    [type |-> type, cycle |-> FALSE, request_type |-> 0, request |-> 0,
     value |-> 0, index |-> 0, length |-> 0, trt |-> "No",
     ptr |-> 0, len |-> 0, ioc |-> FALSE, dir |-> "Out"]

SetupData(request_type, request, value, index, length) ==
    [request_type |-> request_type, request |-> request, value |-> value,
     index |-> index, length |-> length]

\* From<SetupData> for SetupStage
SetupStage_from(setup) ==
    [TrbT("SetupStage") EXCEPT !.request_type = setup.request_type,
                               !.request = setup.request,
                               !.value = setup.value,
                               !.length = setup.length,
                               !.index = setup.index]

\* A 32-bit word is kept as its two halves, b0_15 and b16_31.
\* From<SetupData> for [u32; 2]: lo holds request_type, request and value,
\* hi holds length in bits 0..=15 and index in bits 16..=31.
SetupData_into_raw(setup) ==
    [i \in 0 .. 1 |->
        IF i = 0
        THEN [b0_15 |-> (setup.request_type % 256) + 256 * (setup.request % 256),
              b16_31 |-> setup.value % 65536]
        ELSE [b0_15 |-> setup.length % 65536, b16_31 |-> setup.index % 65536]]

\* TryFrom<[u32; 2]> for SetupData: index is read from bits 16..=31 and
\* length from bits 16..31 of word 1.
SetupData_try_from_raw(raw) ==
    LET rt == raw[0].b0_15 % 256
        rq == raw[0].b0_15 \div 256
    IN  IF (rt % 32) \notin Recipients \/ ((rt \div 32) % 4) = 3 \/ rq \notin RequestCodes
        THEN [ok |-> FALSE, setup |-> SetupData(0, 0, 0, 0, 0)]
        ELSE [ok |-> TRUE,
              setup |-> SetupData(rt, rq, raw[0].b16_31, raw[1].b16_31,
                                  raw[1].b16_31 % 32768)]

\* TryFrom<SetupStage> for SetupData, through the raw words of the TRB:
\* word 0 holds bmRequestType, bRequest and wValue, word 1 holds wIndex in
\* bits 0..15 and wLength in bits 16..31.
SetupData_try_from(trb) ==
    SetupData_try_from_raw(
        [i \in 0 .. 1 |->
            IF i = 0
            THEN [b0_15 |-> (trb.request_type % 256) + 256 * (trb.request % 256),
                  b16_31 |-> trb.value % 65536]
            ELSE [b0_15 |-> trb.index % 65536, b16_31 |-> trb.length % 65536]])

\* a descriptor buffer: Option<Pin<Box<[u8]>>>
NoBuf == [present |-> FALSE, addr |-> 0, len |-> 0]
\* the k-th buffer the allocator hands out
Buf(k, len) == [present |-> TRUE, addr |-> 16384 + 256 * k, len |-> len]

\* the Transfer Ring of endpoint 0 is allocated at
TrHead == 8192
\* the number of TRBs of the Transfer Ring a Device allocates
TR_SIZE == 32

\* a control_transfer whose length check lets the empty buffer through
Device_control_transfer_ZeroLength(tr, id, setup, buf) ==
    IF id = 0 THEN [tr |-> tr, ret |-> Panic, addr |-> 0]
    ELSE IF id # 1
    THEN [tr |-> tr, ret |-> Err("TransferRingNotAllocatedForDevice"), addr |-> 0]
    ELSE IF buf.present /\ buf.len \notin 0 .. 65536
    THEN [tr |-> tr, ret |-> Err("InvalidTransferLength"), addr |-> 0]
    ELSE LET data == [TrbT("DataStage") EXCEPT
                         !.ioc = TRUE, !.ptr = buf.addr, !.len = buf.len,
                         !.dir = EndpointId_direction(id)]
             setup_trb == [SetupStage_from(setup) EXCEPT
                              !.trt = EndpointId_direction(id)]
             p1 == Producer_push(tr, setup_trb)
             p2 == Producer_push(p1.ring, data)
             p3 == Producer_push(p2.ring, TrbT("StatusStage"))
         IN  [tr |-> p3.ring, ret |-> Ok(None), addr |-> p2.ret]

\* Device::control_transfer on a Device that has the Transfer Ring of
\* endpoint 0 only: the ring, the Result, and the address returned.
Device_control_transfer(tr, id, setup, buf) ==
    IF id = 0 THEN [tr |-> tr, ret |-> Panic, addr |-> 0]
    ELSE IF id # 1
    THEN [tr |-> tr, ret |-> Err("TransferRingNotAllocatedForDevice"), addr |-> 0]
    ELSE IF buf.present
    THEN IF buf.len \notin 1 .. 65536
         THEN [tr |-> tr, ret |-> Err("InvalidTransferLength"), addr |-> 0]
         ELSE LET data == [TrbT("DataStage") EXCEPT
                              !.ioc = TRUE, !.ptr = buf.addr, !.len = buf.len,
                              !.dir = EndpointId_direction(id)]
                  setup_trb == [SetupStage_from(setup) EXCEPT
                                   !.trt = EndpointId_direction(id)]
                  p1 == Producer_push(tr, setup_trb)
                  p2 == Producer_push(p1.ring, data)
                  p3 == Producer_push(p2.ring, TrbT("StatusStage"))
              IN  [tr |-> p3.ring, ret |-> Ok(None), addr |-> p2.ret]
    ELSE LET status == [TrbT("StatusStage") EXCEPT
                           !.ioc = TRUE,
                           !.dir = IF EndpointId_direction(id) = "In"
                                   THEN "In" ELSE "Out"]
             p1 == Producer_push(tr, SetupStage_from(setup))
             p2 == Producer_push(p1.ring, status)
         IN  [tr |-> p2.ring, ret |-> Ok(None), addr |-> p2.ret]

\* Driver::new(Device::new_with_ep0_enabled(..)).  debug_assertions tells
\* whether the build keeps debug_assert_eq!; None of num_configurations is -1.
Driver_new_with(debug_assertions) ==
    [state |-> "Uninvoked",
     tr |-> Producer_new(MaxTrCap, TrHead),
     issuers |-> [k \in {} |-> TrbT("SetupStage")],
     desc_bufs |-> [i \in 0 .. NUM_OF_ENDPOINTS - 1 |-> NoBuf],
     num_configurations |-> [i \in 0 .. NUM_OF_ENDPOINTS - 1 |-> -1],
     nbufs |-> 0,
     debug_assertions |-> debug_assertions]

\* the Driver and the Result of one of its operations
DRes(d, ret) == [d |-> d, ret |-> ret]

State_next(state) ==
    CASE state = "Uninvoked" -> "GetConfigDesc"
      [] state = "GetConfigDesc" -> "ReadSetConfig"
      [] state = "ReadSetConfig" -> "SetEndpoint"
      [] state = "SetEndpoint" -> "Ready"
      [] OTHER -> "None"

go_next_state(d) ==
    IF State_next(d.state) # "None"
    THEN DRes([d EXCEPT !.state = State_next(d.state)], Ok(None))
    ELSE DRes(d, Err("InvalidDeviceInitializationState"))

\* LinearMap::insert
issuers_insert(issuers, key, value) ==
    IF key \notin DOMAIN issuers /\ Cardinality(DOMAIN issuers) >= IssuerCap
    THEN [ok |-> FALSE, map |-> issuers]
    ELSE [ok |-> TRUE,
          map |-> [k \in DOMAIN issuers \cup { key } |->
                      IF k = key THEN value ELSE issuers[k]]]

\* Driver::control_transfer
Driver_control_transfer(d, id, setup, buf) ==
    LET t == Device_control_transfer(d.tr, id, setup, buf)
        d1 == [d EXCEPT !.tr = t.tr]
        ins == issuers_insert(d.issuers, t.addr, SetupStage_from(setup))
    IN  IF t.ret.kind # "Ok" THEN DRes(d1, t.ret)
        ELSE IF ~ins.ok THEN DRes(d1, Err("TrbIssuerMapFull"))
        ELSE DRes([d1 EXCEPT !.issuers = ins.map], Ok(None))

\* get_descriptor, with the allocation of its buffer of buflen bytes.
\* length: buf.len().try_into().unwrap() panics when the length is no u16.
get_descriptor(d, id, desc_type, desc_index, buflen) ==
    LET buf == Buf(d.nbufs, buflen)
        d0 == [d EXCEPT !.nbufs = d.nbufs + 1]
        setup == SetupData(RequestType_DeviceStandardIn, RequestCode_GetDescriptor,
                           desc_type * 256 + desc_index, 0, buflen)
        c == Driver_control_transfer(d0, id, setup, buf)
    IN  IF buflen > 65535 THEN DRes(d, Panic)
        ELSE IF c.ret.kind # "Ok" THEN c
        ELSE DRes([c.d EXCEPT !.desc_bufs[EndpointId_as_index(id)] = buf], Ok(None))

get_device_desc(d, id) ==
    get_descriptor(d, id, DescriptorType_Device, 0, DeviceDescriptor_SIZE)

\* an invoke_init that starts over from any state
invoke_init_Restart(d) ==
    LET g == get_device_desc(d, DEFAULT_CONTROL)
    IN  IF g.ret.kind # "Ok" THEN g
        ELSE DRes([g.d EXCEPT !.state = "GetConfigDesc"], Ok(None))

invoke_init(d) ==
    IF d.state # "Uninvoked" THEN DRes(d, Err("InvalidDeviceInitializationState"))
    ELSE LET g == get_device_desc(d, DEFAULT_CONTROL)
         IN  IF g.ret.kind # "Ok" THEN g ELSE go_next_state(g.d)

\* a validate_desc_buf that accepts any address
validate_desc_buf_Any(d, id, found_addr) ==
    IF ~d.desc_bufs[EndpointId_as_index(id)].present
    THEN Err("DescriptorBufferNotAllocated")
    ELSE Ok(None)

validate_desc_buf(d, id, found_addr) ==
    IF ~d.desc_bufs[EndpointId_as_index(id)].present
    THEN Err("DescriptorBufferNotAllocated")
    ELSE IF d.desc_bufs[EndpointId_as_index(id)].addr = found_addr
    THEN Ok(None)
    ELSE Err("DescriptorLost")

(***************************************************************************)
(* What a descriptor buffer holds when the driver reads it: nothing        *)
(* written (zeros), a device descriptor, or a configuration descriptor     *)
(* followed by the descriptors named in items; the rest of the buffer is   *)
(* zero.                                                                   *)
(***************************************************************************)
Content(kind, ncfg, items) == [kind |-> kind, ncfg |-> ncfg, items |-> items]

\* bLength of the descriptors that follow a configuration descriptor: an
\* interface with no or one endpoint, an endpoint, a HID header without
\* class descriptors, a string descriptor
ItemLen(kind) ==
    CASE kind \in { "Interface0", "Interface1" } -> 9
      [] kind = "Endpoint" -> 7
      [] kind = "Hid" -> 6
      [] OTHER -> 4

\* ConfigDescReader::next on the slice of slicelen bytes, the cursor being
\* at item i of items: the item (or "None", or an error) and the new cursor
ConfigDescReader_next(items, i, cursor, slicelen) ==
    IF cursor >= slicelen THEN [item |-> "None", cursor |-> cursor]
    ELSE IF i > Len(items) \/ slicelen - cursor < 2
    THEN [item |-> "InvalidDescriptor",
          cursor |-> IF i > Len(items) THEN cursor ELSE cursor + ItemLen(items[i])]
    ELSE IF items[i] = "String" \/ slicelen - cursor < ItemLen(items[i])
    THEN [item |-> "UnsupportedDescriptor", cursor |-> cursor + ItemLen(items[i])]
    ELSE [item |-> items[i], cursor |-> cursor + ItemLen(items[i])]

\* the loops of read_and_set_config: pending is the number of descriptors
\* still expected for the interface at hand, -1 between interfaces
RECURSIVE read_config_items(_, _, _, _, _)
read_config_items(items, i, cursor, slicelen, pending) ==
    LET n == ConfigDescReader_next(items, i, cursor, slicelen)
    IN  IF pending = 0 THEN read_config_items(items, i, cursor, slicelen, -1)
        ELSE IF pending = -1
        THEN IF n.item = "None" THEN Ok(None)
             ELSE IF n.item \in { "InvalidDescriptor", "UnsupportedDescriptor" }
             THEN Err(n.item)
             ELSE IF n.item = "Interface0"
             THEN read_config_items(items, i + 1, n.cursor, slicelen, 0)
             ELSE IF n.item = "Interface1"
             THEN read_config_items(items, i + 1, n.cursor, slicelen, 1)
             ELSE Err("InvalidlyOrderedDescriptorFound")
        ELSE IF n.item = "None" THEN Panic
             ELSE IF n.item \in { "InvalidDescriptor", "UnsupportedDescriptor" }
             THEN Err(n.item)
             ELSE IF n.item \in { "Interface0", "Interface1" }
             THEN Err("InvalidlyOrderedDescriptorFound")
             ELSE IF n.item = "Endpoint" THEN Panic
             ELSE read_config_items(items, i + 1, n.cursor, slicelen, pending - 1)

drain_desc_buf(d, id) ==
    IF d.desc_bufs[EndpointId_as_index(id)].present
    THEN DRes([d EXCEPT !.desc_bufs[EndpointId_as_index(id)] = NoBuf], Ok(None))
    ELSE DRes(d, Err("DescriptorBufferNotAllocated"))

\* init phase 1
get_config_desc(d, id, content) ==
    LET buf == d.desc_bufs[EndpointId_as_index(id)]
        dr == drain_desc_buf(d, id)
        d1 == [dr.d EXCEPT !.num_configurations[EndpointId_as_index(id)] = content.ncfg]
    IN  IF dr.ret.kind # "Ok" THEN dr
        ELSE IF buf.len < DeviceDescriptor_SIZE \/ content.kind # "Device"
        THEN DRes(dr.d, Err("InvalidDescriptor"))
        ELSE get_descriptor(d1, DEFAULT_CONTROL, DescriptorType_Configuration, 0,
                            ConfigBufLen)

\* init phase 2
read_and_set_config(d, id, unused_tail_len, content) ==
    LET buf == d.desc_bufs[EndpointId_as_index(id)]
        dr == drain_desc_buf(d, id)
        written_len == buf.len - unused_tail_len
        valid == buf.len >= ConfigurationDescriptor_SIZE /\ content.kind = "Config"
    IN  IF dr.ret.kind # "Ok" THEN dr
        ELSE IF unused_tail_len > buf.len /\ d.debug_assertions THEN DRes(dr.d, Panic)
        ELSE IF ~valid THEN DRes(dr.d, Err("InvalidDescriptor"))
        ELSE IF written_len < ConfigurationDescriptor_SIZE THEN DRes(dr.d, Panic)
        ELSE DRes(dr.d,
                  read_config_items(content.items, 1, 0,
                                    written_len - ConfigurationDescriptor_SIZE, -1))

\* init phase 3
set_endpoints(d) == DRes(d, Ok(None))

on_control_completed(d, id, unused_tail_len, content) ==
    IF d.state = "Ready" THEN DRes(d, Ok(None))
    ELSE IF d.state = "Uninvoked"
    THEN DRes(d, Err("InvalidDeviceInitializationState"))
    ELSE LET r == CASE d.state = "GetConfigDesc" -> get_config_desc(d, id, content)
                    [] d.state = "ReadSetConfig" ->
                           read_and_set_config(d, id, unused_tail_len, content)
                    [] OTHER -> set_endpoints(d)
         IN  IF r.ret.kind # "Ok" THEN r ELSE go_next_state(r.d)

\* read_trb at a pointer into the Transfer Ring: the TRB in the slot the
\* pointer addresses.  The xHC reports the addresses of TRBs, which lie 16
\* bytes apart.
read_trb(tr, pointer) ==
    LET off == pointer - tr.head
    IN  IF off >= 0 /\ off % 16 = 0 /\ off \div 16 < tr.cap
        THEN tr.buf[off \div 16]
        ELSE ZeroTrb

TransferTrbTypes == { "Normal", "SetupStage", "DataStage", "StatusStage", "Link" }

\* Driver::transfer_event for the event te = [ptr, ep, tail, code].  The
\* match on the completion code te.code writes a log line for a code other
\* than Success and ShortPacket and goes on in either case.
transfer_event(d, te, content) ==
    LET trb == read_trb(d.tr, te.ptr)
        id == te.ep
    IN  IF trb.type \notin TransferTrbTypes THEN DRes(d, Err("UnexpectedTrbContent"))
        ELSE IF trb.type = "Normal"
        THEN DRes(d, Err("ClassDriverNotAllocatedForEndpoint"))
        ELSE IF trb.type = "DataStage"
        THEN IF validate_desc_buf(d, id, trb.ptr).kind # "Ok"
             THEN DRes(d, validate_desc_buf(d, id, trb.ptr))
             ELSE DRes(d, Panic)
        ELSE IF trb.type = "SetupStage"
        THEN IF te.ptr \notin DOMAIN d.issuers
             THEN DRes(d, Err("NoCorrespondingIssuerTrb"))
             ELSE IF d.issuers[te.ptr].type = "DataStage"
             THEN DRes(d, Err("TrbAddressConflicts"))
             ELSE IF d.debug_assertions /\ trb # d.issuers[te.ptr]
             THEN DRes(d, Panic)
             ELSE IF ~SetupData_try_from(trb).ok
             THEN DRes(d, Err("InvalidSetupStageTrb"))
             ELSE on_control_completed(d, id, te.tail, content)
        ELSE DRes(d, Err("InvalidPortPhase"))

\* the Driver and its log right after construction
DrvNew == Driver_new_with(TRUE)
NoTe == [ptr |-> 0, ep |-> 0, tail |-> 0, code |-> "Success"]
\* issued keeps, for each issuer address, what the memory there held when
\* the driver recorded the address
DrvLogNew ==
    [op |-> "none", te |-> NoTe, ret |-> Ok(None), pre |-> DrvNew,
     overwrites |-> 0, issued |-> [k \in {} |-> ZeroTrb]]

(***************************************************************************)
(* on_event of either manager                                              *)
(***************************************************************************)
DM_on_event(d, regs, event) ==
    IF event.type = "CommandCompletion" THEN DM_command_completion(d, regs, event)
    ELSE IF event.type = "PortStatusChange"
    THEN DM_port_status_change(d, regs, event.port_id)
    ELSE Res(d, regs, Ok(None))

HC_on_event(h, regs, event) ==
    IF event.type = "CommandCompletion" THEN HC_command_completion(h, regs, event)
    ELSE IF event.type = "PortStatusChange"
    THEN HC_port_status_change(h, regs, event.port_id)
    ELSE Res(h, regs, Ok(None))

NoEvent ==
    [type |-> "None", port_id |-> 0, code |-> "Success", slot_id |-> 0,
     cmd |-> "None", speed |-> 0]

\* no handler has been called yet on the manager of kind unit
NoCall(unit) ==
    [unit |-> unit, event |-> NoEvent, ret |-> Ok(None),
     dm |-> DeviceManager_new, hc |-> HostController_new,
     port_regs |-> PortRegsNew]

(***************************************************************************)
(* SpecEventRing: the event ring of the primary interrupter is registered  *)
(* with the xHC, the xHC writes events into it, and the kernel consumes    *)
(* them as process_events does: read ERDP, consume from it, iterate to the *)
(* end, write the dequeue pointer back.  A panic halts the kernel.         *)
(***************************************************************************)
ErNew == EventRing_new_primary(2, 64)

\* new_primary points ERDP at the head of the ring; the xHC starts writing
\* at slot 0 with producer cycle state 1.
XhcNew(e) == [enq |-> 0, pcs |-> TRUE, used |-> 0, count |-> 0, erdp |-> e.head]

NoIter ==
    [live |-> FALSE, start |-> 0, index |-> 0, consumed |-> FALSE,
     yielded |-> <<>>, ccs0 |-> TRUE, dirty |-> FALSE, second |-> FALSE,
     panicked |-> FALSE]

\* handed lists the events process_events has passed to on_event, over all
\* its calls
ErLogNew ==
    [done |-> FALSE, start |-> 0, d |-> 0, yielded |-> <<>>, clean |-> FALSE,
     handed |-> <<>>]

InitEventRing ==
    /\ pr = PrNew /\ prlog = PrLogNew
    /\ \E c \in 2 .. MaxErCap, h \in HeadAddrs :
          /\ er = EventRing_new_primary(c, h)
          /\ xhc = XhcNew(er)
    /\ it = NoIter
    /\ erlog = ErLogNew
    /\ port_regs = PortRegsNew /\ dm = DeviceManager_new /\ hc = HostController_new
    /\ last = NoCall("DeviceManager")
    /\ drv = DrvNew /\ drvlog = DrvLogNew
    /\ boot = NotStarted /\ intr = NotStarted

\* The xHC writes its next event at its enqueue pointer, with its producer
\* cycle state, and toggles that state when it wraps.  It uses the last free
\* slot for an Event Ring Full Error event and then waits for ERDP.
HwWrite ==
    /\ xhc.count < MaxHwEvents
    /\ xhc.used < er.cap
    /\ LET type == IF xhc.used = er.cap - 1 THEN "HostController"
                   ELSE "PortStatusChange"
           ev == Trb(type, xhc.pcs, xhc.count + 1, FALSE, 0)
           wrap == xhc.enq = er.cap - 1
       IN  /\ er' = [er EXCEPT !.buf[xhc.enq] = ev]
           /\ xhc' = [xhc EXCEPT !.enq = IF wrap THEN 0 ELSE xhc.enq + 1,
                                 !.pcs = IF wrap THEN ~xhc.pcs ELSE xhc.pcs,
                                 !.used = xhc.used + 1,
                                 !.count = xhc.count + 1]
    /\ it' = [it EXCEPT !.dirty = it.live]
    /\ erlog' = [erlog EXCEPT !.clean = FALSE]
    /\ UNCHANGED <<prVars, portVars, drvVars, sysVars>>

\* process_events, up to the creation of the iterator
Consume ==
    /\ ~it.live
    /\ LET start_addr == event_ring_dequeue_pointer(xhc)
           i == EventRingIterator_new(er, start_addr)
       IN  it' = [live |-> TRUE, start |-> start_addr, index |-> i.index,
                  consumed |-> i.consumed, yielded |-> <<>>,
                  ccs0 |-> consumer_cycle_state(er), dirty |-> FALSE,
                  second |-> erlog.done /\ erlog.clean, panicked |-> FALSE]
    /\ UNCHANGED <<er, xhc, erlog, prVars, portVars, drvVars, sysVars>>

\* process_events: one turn of the for loop
IterNext ==
    /\ it.live /\ ~it.consumed /\ ~it.panicked
    /\ LET r == EventRingIterator_next(er, [index |-> it.index, consumed |-> it.consumed])
       IN  /\ er' = r.er
           /\ it' = [it EXCEPT !.index = r.it.index,
                               !.consumed = r.it.consumed,
                               !.panicked = r.panic,
                               !.yielded = IF r.item.some
                                           THEN Append(it.yielded, r.item.trb)
                                           ELSE it.yielded]
    /\ UNCHANGED <<xhc, erlog, prVars, portVars, drvVars, sysVars>>

\* What the xHC makes of a new ERDP: the slots from it to the enqueue pointer
\* are in use.  A pointer outside the segment matches no slot.
HwUsed(e, x, d) ==
    LET deq == (d - e.head) \div 16
    IN  IF deq \in 0 .. e.cap - 1 THEN (x.enq - deq + e.cap) % e.cap ELSE x.used

\* process_events, after the loop: the dequeue pointer goes to ERDP.  The
\* body of the loop is empty: no event it went through was passed to
\* on_event.
WriteBack ==
    /\ it.live /\ it.consumed
    /\ LET d == dequeue_pointer(er, it)
       IN  /\ xhc' = [xhc EXCEPT !.erdp = d, !.used = HwUsed(er, xhc, d)]
           /\ erlog' = [done |-> TRUE, start |-> it.start, d |-> d,
                        yielded |-> it.yielded, clean |-> ~it.dirty,
                        handed |-> erlog.handed]
    /\ it' = NoIter
    /\ UNCHANGED <<er, prVars, portVars, drvVars, sysVars>>

NextEventRing == HwWrite \/ Consume \/ IterNext \/ WriteBack

SpecEventRing == InitEventRing /\ [][NextEventRing]_vars

(***************************************************************************)
(* SpecProducer: a Producer of any capacity 2 .. MaxCap is constructed     *)
(* (new asserts capacity >= 2) and its caller pushes TRBs.                 *)
(***************************************************************************)
InitProducer ==
    /\ \E c \in 2 .. MaxCap, h \in HeadAddrs : pr = Producer_new(c, h)
    /\ prlog = PrLogNew
    /\ er = ErNew /\ xhc = XhcNew(ErNew) /\ it = NoIter /\ erlog = ErLogNew
    /\ port_regs = PortRegsNew /\ dm = DeviceManager_new /\ hc = HostController_new
    /\ last = NoCall("DeviceManager")
    /\ drv = DrvNew /\ drvlog = DrvLogNew
    /\ boot = NotStarted /\ intr = NotStarted

Push(trb) ==
    /\ Len(prlog.pushed) < MaxPushes
    /\ UNCHANGED <<erVars, portVars, drvVars, sysVars>>
    /\ LET res == Producer_push(pr, trb)
       IN  /\ pr' = res.ring
           /\ prlog' = [pushed |-> Append(prlog.pushed, trb),
                        rets |-> Append(prlog.rets, res.ret)]

NextProducer == \E trb \in CallerTrbs : Push(trb)

SpecProducer == InitProducer /\ [][NextProducer]_vars

(***************************************************************************)
(* The event handlers.  Neither constructor is followed by any call that   *)
(* takes a port out of NotConnected, so the handlers are applied to        *)
(* manager values: the constructor's value in which one port has any       *)
(* phase and the addressing-port marker any value, with up to two port     *)
(* registers of any value.  A panic halts the kernel.                      *)
(***************************************************************************)
\* the ports that have an entry in the tables sized MaxPorts
TablePorts == 1 .. MaxPorts - 1

OtherUnitsNew ==
    /\ pr = PrNew /\ prlog = PrLogNew
    /\ er = ErNew /\ xhc = XhcNew(ErNew) /\ it = NoIter /\ erlog = ErLogNew
    /\ drv = DrvNew /\ drvlog = DrvLogNew
    /\ boot = NotStarted /\ intr = NotStarted

InitPortStatusChange ==
    /\ OtherUnitsNew
    /\ \E i1, i2 \in PortIdx, v1, v2 \in PortscValues :
          port_regs = [[PortRegsNew EXCEPT ![i1] = v1] EXCEPT ![i2] = v2]
    /\ \E p1 \in TablePorts :
          \/ /\ \E f1 \in Phases, a \in { 0 } \cup TablePorts :
                   dm = [DeviceManager_new EXCEPT
                            !.port_phases[p1] = f1,
                            !.addressing_port = a]
             /\ hc = HostController_new
             /\ last = NoCall("DeviceManager")
          \/ /\ \E f1 \in HCPhases, a \in PortIdx :
                   hc = [HostController_new EXCEPT
                            !.port_phases[p1] = f1,
                            !.addressing_port = a]
             /\ dm = DeviceManager_new
             /\ last = NoCall("HostController")

DM_OnEvent(event) ==
    /\ last.unit = "DeviceManager" /\ last.ret.kind # "Panic"
    /\ LET r == DM_on_event(dm, port_regs, event)
       IN  /\ dm' = r.m
           /\ port_regs' = r.regs
           /\ last' = [unit |-> "DeviceManager", event |-> event, ret |-> r.ret,
                       dm |-> dm, hc |-> hc, port_regs |-> port_regs]
    /\ UNCHANGED <<hc, prVars, erVars, drvVars, sysVars>>

HC_OnEvent(event) ==
    /\ last.unit = "HostController" /\ last.ret.kind # "Panic"
    /\ LET r == HC_on_event(hc, port_regs, event)
       IN  /\ hc' = r.m
           /\ port_regs' = r.regs
           /\ last' = [unit |-> "HostController", event |-> event, ret |-> r.ret,
                       dm |-> dm, hc |-> hc, port_regs |-> port_regs]
    /\ UNCHANGED <<dm, prVars, erVars, drvVars, sysVars>>

NextPortStatusChange ==
    \E p \in 1 .. MaxPorts :
        DM_OnEvent(PortStatusChange(p)) \/ HC_OnEvent(PortStatusChange(p))

SpecPortStatusChange == InitPortStatusChange /\ [][NextPortStatusChange]_vars

\* The completions delivered: one with a failure code, one with an
\* undecodable code, and successful ones for each command.
CcEvents ==
    { CommandCompletion("Other", 1, "EnableSlot", 3),
      CommandCompletion("Invalid", 1, "EnableSlot", 3) }
    \cup { CommandCompletion("Success", s, "EnableSlot", sp) :
              s \in SlotIds, sp \in PortSpeeds }
    \cup { CommandCompletion("Success", s, "AddressDevice", 3) : s \in SlotIds }
    \cup { CommandCompletion("Success", 1, c, 3) :
              c \in { "ConfigureEndpoint", "Noop", "Invalid" } }

\* the manager in which port q, if any, has been configured with slot t
DM_Bound(d, q, t) ==
    IF q = 0 THEN d
    ELSE [d EXCEPT !.port_phases[q] = "Configured",
                   !.port_to_slot[q] = t,
                   !.dcbaa[t] = CtxAddr(0),
                   !.drivers[t] = Driver_new(CtxAddr(0), CtxAddr(1), q, 3),
                   !.allocs = 2]

HC_Bound(h, q, t) ==
    IF q = 0 THEN h
    ELSE [h EXCEPT !.port_phases[q] = "Configured", !.port_to_slot[q] = t]

\* The completion handlers read no port register.  They are applied to the
\* constructor's value in which one port may have been configured with a
\* slot, one port has any phase and the addressing-port marker any value.
InitCommandCompletion ==
    /\ OtherUnitsNew
    /\ port_regs = PortRegsNew
    /\ \E p1 \in TablePorts, q \in { 0 } \cup TablePorts, t \in SlotIds :
          \/ /\ \E f1 \in Phases, a \in { 0 } \cup TablePorts :
                   dm = [DM_Bound(DeviceManager_new, q, t) EXCEPT
                            !.port_phases[p1] = f1,
                            !.addressing_port = a]
             /\ hc = HostController_new
             /\ last = NoCall("DeviceManager")
          \/ /\ \E f1 \in HCPhases, a \in PortIdx :
                   hc = [HC_Bound(HostController_new, q, t) EXCEPT
                            !.port_phases[p1] = f1,
                            !.addressing_port = a]
             /\ dm = DeviceManager_new
             /\ last = NoCall("HostController")

NextCommandCompletion ==
    \E event \in CcEvents : DM_OnEvent(event) \/ HC_OnEvent(event)

SpecCommandCompletion == InitCommandCompletion /\ [][NextCommandCompletion]_vars

(***************************************************************************)
(* SpecBinding: address_device of DeviceManager and                        *)
(* assign_slot_and_addr_to_device of HostController, the only callers of   *)
(* set_port_to_slot, called on a manager fresh from its constructor with   *)
(* any port that has a table entry, any slot and any port speed.           *)
(***************************************************************************)
\* the call made: bind port_id to slot_id, the port running at speed
Bind(port_id, slot_id, speed) ==
    [type |-> "Bind", port_id |-> port_id, code |-> "Success",
     slot_id |-> slot_id, cmd |-> "EnableSlot", speed |-> speed]

InitBinding ==
    /\ OtherUnitsNew
    /\ port_regs = PortRegsNew
    /\ dm = DeviceManager_new
    /\ hc = HostController_new
    /\ \E unit \in { "DeviceManager", "HostController" } : last = NoCall(unit)

DM_AddressDevice(port_id, slot_id, speed) ==
    /\ last.unit = "DeviceManager" /\ last.ret.kind # "Panic"
    /\ LET r == DM_address_device(dm, port_regs, port_id, slot_id, speed)
       IN  /\ dm' = r.m
           /\ port_regs' = r.regs
           /\ last' = [unit |-> "DeviceManager",
                       event |-> Bind(port_id, slot_id, speed), ret |-> r.ret,
                       dm |-> dm, hc |-> hc, port_regs |-> port_regs]
    /\ UNCHANGED <<hc, prVars, erVars, drvVars, sysVars>>

HC_AssignSlot(port_id, slot_id, speed) ==
    /\ last.unit = "HostController" /\ last.ret.kind # "Panic"
    /\ LET r == assign_slot_and_addr_to_device(hc, port_regs, port_id, slot_id, speed)
       IN  /\ hc' = r.m
           /\ port_regs' = r.regs
           /\ last' = [unit |-> "HostController",
                       event |-> Bind(port_id, slot_id, speed), ret |-> r.ret,
                       dm |-> dm, hc |-> hc, port_regs |-> port_regs]
    /\ UNCHANGED <<dm, prVars, erVars, drvVars, sysVars>>

NextBinding ==
    \E p \in TablePorts, s \in SlotIds, sp \in PortSpeeds :
        DM_AddressDevice(p, s, sp) \/ HC_AssignSlot(p, s, sp)

SpecBinding == InitBinding /\ [][NextBinding]_vars

(***************************************************************************)
(* SpecDcbaa: a DeviceContextBaseAddressArray of some capacity, as new     *)
(* builds it, and calls of register with any index and any device context  *)
(* pointer.  A panic halts the kernel.                                     *)
(***************************************************************************)
RegisterCall(i, device) == [type |-> "register", i |-> i, device |-> device]

InitDcbaa ==
    /\ OtherUnitsNew
    /\ port_regs = PortRegsNew
    /\ hc = HostController_new
    /\ \E capacity \in 1 .. MaxSlots + 1 :
          LET d == [DeviceManager_new EXCEPT
                       !.dcbaa = DeviceContextBaseAddressArray_new(capacity)]
          IN  /\ dm = d
              /\ last = [NoCall("DeviceContextBaseAddressArray") EXCEPT !.dm = d]

Register(i, device) ==
    /\ last.ret.kind # "Panic"
    /\ LET r == register(dm.dcbaa, i, device)
       IN  /\ dm' = [dm EXCEPT !.dcbaa = r.inner]
           /\ last' = [unit |-> "DeviceContextBaseAddressArray",
                       event |-> RegisterCall(i, device), ret |-> r.ret,
                       dm |-> dm, hc |-> hc, port_regs |-> port_regs]
    /\ UNCHANGED <<hc, port_regs, prVars, erVars, drvVars, sysVars>>

NextDcbaa ==
    \E i \in 0 .. MaxSlots + 2, device \in { CtxAddr(k) : k \in 0 .. MaxCtxPtrs } :
        Register(i, device)

SpecDcbaa == InitDcbaa /\ [][NextDcbaa]_vars

(***************************************************************************)
(* SpecDriver: a Driver as address_device registers it, then invoke_init,  *)
(* Transfer Events for endpoints of its slot, and control completions.     *)
(* on_control_completed is reached through transfer_event and is also      *)
(* called on its own.  The memory of the Transfer Ring may change under    *)
(* the driver.  A panic halts the kernel.                                  *)
(***************************************************************************)
Contents ==
    { Content("Zero", 0, <<>>), Content("Device", 1, <<>>) }
    \cup { Content("Config", 0, its) :
              its \in { <<>>, << "Interface1" >>, << "Interface1", "Hid" >>,
                        << "Interface1", "Endpoint" >>, << "String" >> } }

\* the residual length of an event: nothing left, what a configuration
\* descriptor alone leaves of 128 bytes, everything
Tails == { 0, 119, 128 }

\* the endpoint ids of events: endpoint 0, and endpoint 1 Out
TeEndpoints == { 1, 2 }

Te(ptr, ep, tail) == [ptr |-> ptr, ep |-> ep, tail |-> tail, code |-> "Success"]

InitDriver ==
    /\ pr = PrNew /\ prlog = PrLogNew
    /\ er = ErNew /\ xhc = XhcNew(ErNew) /\ it = NoIter /\ erlog = ErLogNew
    /\ port_regs = PortRegsNew /\ dm = DeviceManager_new /\ hc = HostController_new
    /\ last = NoCall("DeviceManager")
    /\ boot = NotStarted /\ intr = NotStarted
    /\ \E b \in BOOLEAN :
          /\ drv = Driver_new_with(b)
          /\ drvlog = [DrvLogNew EXCEPT !.pre = Driver_new_with(b)]

\* the log keeps the pointer and the endpoint of the event
\* The residual length and the descriptor buffer are read by
\* get_config_desc and read_and_set_config only: the events and buffers
\* that differ in them are told apart where a call gets there.
ReachesCompletion(ptr) ==
    read_trb(drv.tr, ptr).type = "SetupStage" /\ ptr \in DOMAIN drv.issuers
TailsRead(reached) ==
    IF reached /\ drv.state = "ReadSetConfig" THEN Tails ELSE { 0 }
ContentsRead(reached) ==
    IF reached /\ drv.state \in { "GetConfigDesc", "ReadSetConfig" }
    THEN Contents ELSE { Content("Zero", 0, <<>>) }

DriverCall(op, te, r) ==
    /\ drv' = r.d
    /\ drvlog' = [drvlog EXCEPT
                     !.op = op, !.te = [te EXCEPT !.tail = 0], !.ret = r.ret, !.pre = drv,
                     !.issued = [k \in DOMAIN r.d.issuers |->
                                    IF k \in DOMAIN drvlog.issued THEN drvlog.issued[k]
                                    ELSE read_trb(r.d.tr, k)]]
    /\ UNCHANGED <<prVars, erVars, portVars, sysVars>>

InvokeInit ==
    /\ drvlog.ret.kind # "Panic"
    /\ DriverCall("invoke_init", NoTe, invoke_init(drv))

TransferEvent(te, content) ==
    /\ drvlog.ret.kind # "Panic"
    /\ DriverCall("transfer_event", te, transfer_event(drv, te, content))

ControlCompleted(id, unused_tail_len, content) ==
    /\ drvlog.ret.kind # "Panic"
    /\ DriverCall("on_control_completed", Te(0, id, 0),
                  on_control_completed(drv, id, unused_tail_len, content))

Overwrite(j, trb) ==
    /\ drvlog.ret.kind # "Panic"
    /\ drvlog.overwrites < MaxOverwrites
    /\ drv.tr.buf[j] # trb
    /\ drv' = [drv EXCEPT !.tr.buf[j] = trb]
    /\ drvlog' = [op |-> "overwrite", te |-> NoTe, ret |-> Ok(None), pre |-> drv,
                  overwrites |-> drvlog.overwrites + 1, issued |-> drvlog.issued]
    /\ UNCHANGED <<prVars, erVars, portVars, sysVars>>

\* The memory that changes under the driver: the slot an issuer address
\* points to, or the first slot the driver has not written yet.  It comes
\* to hold a Normal TRB, the Setup Stage TRB of the first transfer as the
\* ring holds it, or a Setup Stage TRB as the issuer map holds it.
NextDriver ==
    \/ InvokeInit
    \/ \E ptr \in { TrHead + 16 * j : j \in 0 .. MaxTeSlot }, ep \in TeEndpoints :
          \E tail \in TailsRead(ReachesCompletion(ptr)),
             content \in ContentsRead(ReachesCompletion(ptr)),
             code \in { "Success", "ShortPacket", "StallError" } :
             TransferEvent([Te(ptr, ep, tail) EXCEPT !.code = code], content)
    \/ \E ep \in TeEndpoints :
          \E tail \in TailsRead(TRUE), content \in ContentsRead(TRUE) :
             ControlCompleted(ep, tail, content)
    \/ \E j \in { j \in 0 .. MaxTeSlot : TrHead + 16 * j \in DOMAIN drv.issuers }
                  \cup { drv.tr.write_index },
          trb \in { TrbT("Normal"), drv.tr.buf[0] }
                  \cup { drv.issuers[k] : k \in DOMAIN drv.issuers } :
          Overwrite(j, trb)

SpecDriver == InitDriver /\ [][NextDriver]_vars

(***************************************************************************)
(* SpecDriverInit: the initialization of a plugged device.  invoke_init    *)
(* is called, and the xHC answers each control transfer of the driver      *)
(* with the Transfer Event of the TRB that carries                         *)
(* interrupt-on-completion, completion code Success, after the device has  *)
(* written the descriptor asked for into the buffer.  device is what the   *)
(* plugged device answers: a device descriptor with ncfg configurations,   *)
(* and a configuration descriptor followed by the descriptors in items.    *)
(* Whatever is enabled is eventually done.                                 *)
(***************************************************************************)
InitDriverInit ==
    /\ pr = PrNew /\ prlog = PrLogNew
    /\ er = ErNew /\ xhc = XhcNew(ErNew) /\ it = NoIter /\ erlog = ErLogNew
    /\ port_regs = PortRegsNew /\ dm = DeviceManager_new /\ hc = HostController_new
    /\ last = NoCall("DeviceManager")
    /\ boot = NotStarted /\ intr = NotStarted
    /\ \E b \in BOOLEAN, ncfg \in 1 .. MaxConfigs,
          items \in { <<>>, << "Interface0" >>, << "Interface1", "Hid" >>,
                      << "Interface0", "Interface0" >>,
                      << "Interface0", "Interface1", "Hid" >>,
                      << "Interface1", "Hid", "Interface0" >> } :
          /\ drv = Driver_new_with(b)
          /\ drvlog = [op |-> "none", te |-> NoTe, ret |-> Ok(None),
                       pre |-> Driver_new_with(b), overwrites |-> 0,
                       issued |-> [k \in {} |-> ZeroTrb],
                       device |-> [ncfg |-> ncfg, items |-> items]]

\* The xHC completes the transfer whose Data Stage TRB points to the
\* descriptor buffer the driver waits for: the device writes the descriptor
\* the Setup Stage TRB in the slot before asks for, and the driver gets the
\* Transfer Event of the Data Stage TRB.
HwTransferEvent ==
    \E j \in 1 .. drv.tr.cap - 1 :
        LET data == drv.tr.buf[j]
            setup == drv.tr.buf[j - 1]
            written ==
                ConfigurationDescriptor_SIZE
                + (LET RECURSIVE total(_)
                       total(i) == IF i = 0 THEN 0
                                   ELSE ItemLen(drvlog.device.items[i]) + total(i - 1)
                   IN  total(Len(drvlog.device.items)))
        IN  /\ drv.desc_bufs[EndpointId_as_index(DEFAULT_CONTROL)].present
            /\ data.type = "DataStage" /\ data.ioc
            /\ data.ptr = drv.desc_bufs[EndpointId_as_index(DEFAULT_CONTROL)].addr
            /\ setup.type = "SetupStage" /\ setup.request = RequestCode_GetDescriptor
            /\ IF setup.value \div 256 = DescriptorType_Device
               THEN TransferEvent(Te(drv.tr.head + 16 * j, DEFAULT_CONTROL, 0),
                                  Content("Device", drvlog.device.ncfg, <<>>))
               ELSE TransferEvent(Te(drv.tr.head + 16 * j, DEFAULT_CONTROL,
                                     data.len - written),
                                  Content("Config", 0, drvlog.device.items))

NextDriverInit == InvokeInit \/ HwTransferEvent

SpecDriverInit ==
    InitDriverInit /\ [][NextDriverInit]_vars /\ WF_vars(NextDriverInit)

(***************************************************************************)
(* SpecControlTransfer: the private methods control_transfer and           *)
(* get_descriptor of a Driver, called with data buffers of any length on   *)
(* an endpoint with a Transfer Ring (endpoint 0) and on one without.  The  *)
(* log keeps the buffer handed over.                                       *)
(***************************************************************************)
\* control_transfer(id, setup, Some(&mut buf)) with a fresh buffer of
\* buflen bytes
ControlTransfer(id, setup, buflen) ==
    /\ drvlog.ret.kind # "Panic"
    /\ drv.nbufs < MaxTransferCalls
    /\ LET buf == Buf(drv.nbufs, buflen)
           r == Driver_control_transfer([drv EXCEPT !.nbufs = drv.nbufs + 1],
                                        id, setup, buf)
       IN  /\ drv' = r.d
           /\ drvlog' = [op |-> "control_transfer", te |-> Te(0, id, 0), ret |-> r.ret,
                         pre |-> drv, overwrites |-> 0, issued |-> drvlog.issued,
                         buf |-> buf]
    /\ UNCHANGED <<prVars, erVars, portVars, sysVars>>

\* get_descriptor(id, desc_type, 0, buf) with a fresh buffer of buflen bytes
GetDescriptor(id, desc_type, buflen) ==
    /\ drvlog.ret.kind # "Panic"
    /\ drv.nbufs < MaxTransferCalls
    /\ LET r == get_descriptor(drv, id, desc_type, 0, buflen)
       IN  /\ drv' = [r.d EXCEPT !.nbufs = drv.nbufs + 1]
           /\ drvlog' = [op |-> "get_descriptor", te |-> Te(0, id, 0), ret |-> r.ret,
                         pre |-> drv, overwrites |-> 0, issued |-> drvlog.issued,
                         buf |-> Buf(drv.nbufs, buflen)]
    /\ UNCHANGED <<prVars, erVars, portVars, sysVars>>

\* the buffer lengths are those the length check tells apart and the two
\* the driver uses
NextControlTransfer ==
    \E id \in TeEndpoints,
       desc_type \in { DescriptorType_Device, DescriptorType_Configuration },
       buflen \in { 0, 1, DeviceDescriptor_SIZE, 65535, 65536, 65537 } :
        \/ ControlTransfer(id,
                           SetupData(RequestType_DeviceStandardIn,
                                     RequestCode_GetDescriptor, desc_type * 256, 0,
                                     IF buflen < 65536 THEN buflen ELSE 65535),
                           buflen)
        \/ GetDescriptor(id, desc_type, buflen)

SpecControlTransfer == InitDriver /\ [][NextControlTransfer]_vars

(***************************************************************************)
(* SpecSetupTransfers: one setup packet, converted and issued.  The        *)
(* Driver owns a Device whose endpoint 0 has a Transfer Ring of TR_SIZE    *)
(* TRBs.  The setup packet drvlog.setup is issued again and again by       *)
(* control_transfer on endpoint 0, each time with a fresh buffer of the    *)
(* size of a device descriptor, and it is converted to its two words and   *)
(* to a Setup Stage TRB and back; drvlog.via_raw and drvlog.via_trb keep   *)
(* what the conversions gave.                                              *)
(***************************************************************************)
NotConverted == [done |-> FALSE, ok |-> FALSE, setup |-> SetupData(0, 0, 0, 0, 0)]

\* The request types are (Device, Standard, Out), (Device, Standard, In)
\* and (Interface, Class, In); the request codes are GetDescriptor and
\* SetConfiguration; value, index and length take the ends of the u16
\* range, the values the driver uses and the first value with bit 15 set.
InitSetupTransfers ==
    /\ pr = PrNew /\ prlog = PrLogNew
    /\ er = ErNew /\ xhc = XhcNew(ErNew) /\ it = NoIter /\ erlog = ErLogNew
    /\ port_regs = PortRegsNew /\ dm = DeviceManager_new /\ hc = HostController_new
    /\ last = NoCall("DeviceManager")
    /\ boot = NotStarted /\ intr = NotStarted
    /\ drv = [Driver_new_with(TRUE) EXCEPT !.tr = Producer_new(TR_SIZE, TrHead)]
    /\ \E request_type \in { 0, RequestType_DeviceStandardIn, 161 },
          request \in { RequestCode_GetDescriptor, 9 },
          value \in { 0, 256, 65535 },
          index \in { 0, 1, 32768, 65535 },
          length \in { 0, DeviceDescriptor_SIZE, 32768, 65535 } :
          drvlog = [op |-> "none", te |-> NoTe, ret |-> Ok(None), pre |-> drv,
                    overwrites |-> 0, issued |-> [k \in {} |-> ZeroTrb],
                    setup |-> SetupData(request_type, request, value, index, length),
                    via_raw |-> NotConverted, via_trb |-> NotConverted]

\* control_transfer(DEFAULT_CONTROL, setup, Some(&mut buf))
IssueSetup ==
    /\ drvlog.ret.kind # "Panic"
    /\ drv.nbufs < MaxIssued
    /\ LET r == Driver_control_transfer([drv EXCEPT !.nbufs = drv.nbufs + 1],
                                        DEFAULT_CONTROL, drvlog.setup,
                                        Buf(drv.nbufs, DeviceDescriptor_SIZE))
       IN  /\ drv' = r.d
           /\ drvlog' = [drvlog EXCEPT !.op = "control_transfer", !.ret = r.ret,
                                       !.pre = drv]
    /\ UNCHANGED <<prVars, erVars, portVars, sysVars>>

\* SetupData::try_from(<[u32; 2]>::from(setup)) and
\* SetupData::try_from(SetupStage::from(setup))
ConvertSetup ==
    /\ ~drvlog.via_raw.done
    /\ LET r == SetupData_try_from_raw(SetupData_into_raw(drvlog.setup))
           t == SetupData_try_from(SetupStage_from(drvlog.setup))
       IN  drvlog' = [drvlog EXCEPT
                         !.via_raw = [done |-> TRUE, ok |-> r.ok, setup |-> r.setup],
                         !.via_trb = [done |-> TRUE, ok |-> t.ok, setup |-> t.setup]]
    /\ UNCHANGED <<drv, prVars, erVars, portVars, sysVars>>

NextSetupTransfers == IssueSetup \/ ConvertSetup

SpecSetupTransfers == InitSetupTransfers /\ [][NextSetupTransfers]_vars

(***************************************************************************)
(* Bring-up of the xHC: start_xhc (main.rs) calls HostController::new,     *)
(* init and start.  boot holds the position pc of that code, the register  *)
(* bits it reads and writes, and trace, the list of what it has done and   *)
(* observed.  A polling loop is one step per read that leaves the loop.    *)
(***************************************************************************)
\* a handshake that is left out
request_hc_ownership_Skipped(b) == [b EXCEPT !.pc = "reset"]

\* request_hc_ownership, with the test of the capability list that
\* precedes it: usblegsup is the USB Legacy Support capability, if any
request_hc_ownership(b) ==
    CASE b.pc = "own" ->
           IF ~b.legsup \/ b.os
           THEN [b EXCEPT !.pc = "reset", !.trace = @ \o << "own", "owned" >>]
           ELSE [b EXCEPT !.pc = "own_set", !.trace = Append(@, "own")]
      [] b.pc = "own_set" ->
           [b EXCEPT !.os = TRUE, !.pc = "own_wait", !.trace = Append(@, "requested")]
      [] b.pc = "own_wait" ->
           IF b.bios \/ ~b.os THEN b
           ELSE [b EXCEPT !.pc = "reset", !.trace = Append(@, "owned")]

\* a reset that does not look at the halted bit
reset_Unhalted(b) ==
    CASE b.pc = "reset" -> [b EXCEPT !.pc = "hcrst_set"]
      [] b.pc = "hcrst_set" ->
           [b EXCEPT !.hcrst = TRUE, !.pc = "hcrst_wait", !.trace = Append(@, "hcrst_set")]
      [] b.pc = "hcrst_wait" ->
           IF b.hcrst THEN b
           ELSE [b EXCEPT !.pc = "cnr_wait", !.trace = Append(@, "hcrst_clear_seen")]
      [] b.pc = "cnr_wait" ->
           IF b.cnr THEN b
           ELSE [b EXCEPT !.pc = "dcbaa",
                          !.trace = @ \o << "cnr_clear_seen", "reset_done" >>]
      [] OTHER -> b

\* reset: USBSTS.HCH read, USBCMD.R/S cleared and HCH polled, USBCMD.HCRST
\* set and polled, USBSTS.CNR polled
reset(b) ==
    CASE b.pc = "reset" ->
           IF b.halted
           THEN [b EXCEPT !.pc = "hcrst_set", !.trace = Append(@, "halted_seen")]
           ELSE [b EXCEPT !.pc = "halt_clear"]
      [] b.pc = "halt_clear" ->
           [b EXCEPT !.run_stop = FALSE, !.pc = "halt_wait",
                     !.trace = Append(@, "rs_cleared")]
      [] b.pc = "halt_wait" ->
           IF ~b.halted THEN b
           ELSE [b EXCEPT !.pc = "hcrst_set", !.trace = Append(@, "halted_seen")]
      [] b.pc = "hcrst_set" ->
           [b EXCEPT !.hcrst = TRUE, !.pc = "hcrst_wait", !.trace = Append(@, "hcrst_set")]
      [] b.pc = "hcrst_wait" ->
           IF b.hcrst THEN b
           ELSE [b EXCEPT !.pc = "cnr_wait", !.trace = Append(@, "hcrst_clear_seen")]
      [] b.pc = "cnr_wait" ->
           IF b.cnr THEN b
           ELSE [b EXCEPT !.pc = "dcbaa",
                          !.trace = @ \o << "cnr_clear_seen", "reset_done" >>]

\* start_xhc: new_inner (ownership, reset, create_and_register_dcbaa,
\* register_command_ring, register_event_ring), init (setup_interrupters)
\* and start
start_xhc(b) ==
    CASE b.pc \in { "own", "own_set", "own_wait" } -> request_hc_ownership(b)
      [] b.pc \in { "reset", "halt_clear", "halt_wait", "hcrst_set", "hcrst_wait",
                    "cnr_wait" } -> reset(b)
      [] b.pc = "dcbaa" -> [b EXCEPT !.dcbaap = TRUE, !.pc = "cr"]
      [] b.pc = "cr" -> [b EXCEPT !.crcr = TRUE, !.pc = "er", !.trace = Append(@, "crcr")]
      [] b.pc = "er" -> [b EXCEPT !.erst = TRUE, !.pc = "init", !.trace = Append(@, "erst")]
      [] b.pc = "init" -> [b EXCEPT !.inte = TRUE, !.pc = "start"]
      [] b.pc = "start" ->
           [b EXCEPT !.run_stop = TRUE, !.pc = "run_wait", !.trace = Append(@, "rs_set")]
      [] b.pc = "run_wait" -> IF b.halted THEN b ELSE [b EXCEPT !.pc = "running"]
      [] OTHER -> b

(***************************************************************************)
(* SpecBringUp: start_xhc on a controller whose firmware left it running   *)
(* or halted, with or without a Legacy Support capability and with any     *)
(* value of the two ownership semaphores; the firmware and the xHC answer  *)
(* at any time.                                                            *)
(***************************************************************************)
InitBringUp ==
    /\ pr = PrNew /\ prlog = PrLogNew
    /\ er = ErNew /\ xhc = XhcNew(ErNew) /\ it = NoIter /\ erlog = ErLogNew
    /\ port_regs = PortRegsNew /\ dm = DeviceManager_new /\ hc = HostController_new
    /\ last = NoCall("HostController")
    /\ drv = DrvNew /\ drvlog = DrvLogNew
    /\ intr = NotStarted
    /\ \E legsup, bios, os, run_stop, halted, cnr \in BOOLEAN :
          /\ ~legsup => ~bios /\ ~os
          /\ boot = [pc |-> "own", legsup |-> legsup, bios |-> bios, os |-> os,
                     run_stop |-> run_stop, halted |-> halted, hcrst |-> FALSE,
                     cnr |-> cnr, dcbaap |-> FALSE, crcr |-> FALSE, erst |-> FALSE,
                     inte |-> FALSE, trace |-> <<>>]

\* one step of the kernel
StartXhc ==
    /\ boot' = start_xhc(boot)
    /\ boot' # boot
    /\ UNCHANGED <<prVars, erVars, portVars, drvVars, intr>>

\* one step of the firmware or of the xHC: the firmware releases the
\* controller once the OS has asked for it; the xHC halts when R/S is
\* clear and runs when it is set; HCRST resets the registers and clears
\* itself, and CNR clears afterwards
Xhc ==
    /\ \/ boot.legsup /\ boot.os /\ boot.bios /\ boot' = [boot EXCEPT !.bios = FALSE]
       \/ ~boot.run_stop /\ ~boot.halted /\ boot' = [boot EXCEPT !.halted = TRUE]
       \/ /\ boot.run_stop /\ boot.halted /\ ~boot.hcrst /\ ~boot.cnr
          /\ boot' = [boot EXCEPT !.halted = FALSE]
       \/ /\ boot.hcrst
          /\ boot' = [boot EXCEPT !.hcrst = FALSE, !.cnr = TRUE, !.halted = TRUE,
                                  !.run_stop = FALSE, !.dcbaap = FALSE, !.crcr = FALSE,
                                  !.erst = FALSE, !.inte = FALSE]
       \/ boot.cnr /\ ~boot.hcrst /\ boot' = [boot EXCEPT !.cnr = FALSE]
    /\ UNCHANGED <<prVars, erVars, portVars, drvVars, intr>>

NextBringUp == StartXhc \/ Xhc

SpecBringUp == InitBringUp /\ [][NextBringUp]_vars

(***************************************************************************)
(* The interrupt path (devices/interrupts.rs).  intr holds the message     *)
(* queue INT_QUE (que, the number of XhciInterrupt messages in it), the    *)
(* position pc of process_interrupt_messages, the interrupt flag of the    *)
(* CPU (iflag), the local APIC's view of the xHCI vector (pending: requested   *)
(* and not yet delivered; in_service: delivered and not yet ended by a     *)
(* write to the EOI register) and isr, what the last call of the handler   *)
(* did.  The handler is installed behind an interrupt gate, so it runs     *)
(* from entry to return without the loop in between.                        *)
(***************************************************************************)
\* the messages INT_QUE holds when full
IntQueCap == 2
\* the interrupts the xHC requests in one run
MaxInterrupts == 5

\* the handler xhci: enqueue, and notify_end (the EOI write) when the
\* message went in
xhci(q) ==
    IF q.que < IntQueCap
    THEN [q EXCEPT !.que = q.que + 1, !.in_service = FALSE,
                   !.enqueued = q.enqueued + 1,
                   !.isr = [ran |-> TRUE, pre |-> q.que, pushed |-> 1, eoi |-> TRUE]]
    ELSE [q EXCEPT !.isr = [ran |-> TRUE, pre |-> q.que, pushed |-> 0, eoi |-> FALSE]]

\* a loop that enables the interrupts and halts in two instructions
process_interrupt_messages_EnableThenHlt(q) ==
    CASE q.pc = "disable" -> [q EXCEPT !.iflag = FALSE, !.pc = "dequeue"]
      [] q.pc = "dequeue" ->
           IF q.que > 0
           THEN [q EXCEPT !.que = q.que - 1, !.iflag = TRUE, !.pc = "process_events"]
           ELSE [q EXCEPT !.iflag = TRUE, !.pc = "enabled"]
      [] q.pc = "enabled" -> [q EXCEPT !.pc = "hlt"]
      [] q.pc = "process_events" -> [q EXCEPT !.pc = "disable", !.handled = q.handled + 1]
      [] OTHER -> q

\* one step of the loop of process_interrupt_messages; enable_and_hlt is
\* sti; hlt, between which no interrupt is taken
process_interrupt_messages(q) ==
    CASE q.pc = "disable" -> [q EXCEPT !.iflag = FALSE, !.pc = "dequeue"]
      [] q.pc = "dequeue" ->
           IF q.que > 0
           THEN [q EXCEPT !.que = q.que - 1, !.iflag = TRUE, !.pc = "process_events"]
           ELSE [q EXCEPT !.iflag = TRUE, !.pc = "hlt"]
      [] q.pc = "process_events" -> [q EXCEPT !.pc = "disable", !.handled = q.handled + 1]
      [] OTHER -> q

(***************************************************************************)
(* SpecInterrupts: the loop, the handler and the xHC requesting            *)
(* interrupts, in any interleaving the CPU allows.                         *)
(***************************************************************************)
InitInterrupts ==
    /\ pr = PrNew /\ prlog = PrLogNew
    /\ er = ErNew /\ xhc = XhcNew(ErNew) /\ it = NoIter /\ erlog = ErLogNew
    /\ port_regs = PortRegsNew /\ dm = DeviceManager_new /\ hc = HostController_new
    /\ last = NoCall("HostController")
    /\ drv = DrvNew /\ drvlog = DrvLogNew
    /\ boot = NotStarted
    /\ intr = [pc |-> "disable", iflag |-> TRUE, que |-> 0, pending |-> FALSE,
               in_service |-> FALSE, raised |-> 0, enqueued |-> 0, handled |-> 0,
               isr |-> [ran |-> FALSE, pre |-> 0, pushed |-> 0, eoi |-> FALSE]]

\* the xHC requests an interrupt (MSI-X message to the local APIC)
Raise ==
    /\ intr.raised < MaxInterrupts
    /\ ~intr.pending
    /\ intr' = [intr EXCEPT !.pending = TRUE, !.raised = intr.raised + 1]
    /\ UNCHANGED <<prVars, erVars, portVars, drvVars, boot>>

\* the local APIC delivers the interrupt and the CPU runs the handler up
\* to its return, which wakes a halted CPU
Interrupt ==
    /\ intr.iflag /\ intr.pending /\ ~intr.in_service
    /\ LET q == xhci([intr EXCEPT !.pending = FALSE, !.in_service = TRUE])
       IN  intr' = [q EXCEPT !.pc = IF q.pc = "hlt" THEN "disable" ELSE q.pc]
    /\ UNCHANGED <<prVars, erVars, portVars, drvVars, boot>>

\* one step of the loop
MainLoop ==
    /\ intr' = process_interrupt_messages(intr)
    /\ intr' # intr
    /\ UNCHANGED <<prVars, erVars, portVars, drvVars, boot>>

NextInterrupts == Raise \/ Interrupt \/ MainLoop

SpecInterrupts == InitInterrupts /\ [][NextInterrupts]_vars

\* the CPU goes on with the loop whenever it is not halted
SpecInterruptsFair == SpecInterrupts /\ WF_vars(MainLoop)

----------------------------------------------------------------------------
(* C1 *)
NPushed == Len(prlog.pushed)

\* slot i holds the (i+1)-th TRB handed to push, stamped with the cycle state
HoldsPushed(i) == pr.buf[i] = set_cycle_bit(prlog.pushed[i + 1], TRUE)

\* C1 as the specification states it: after C-1 pushes on a ring that
\* started empty the Link TRB lies at slot C-2 and the write cursor is 0.
C1_LinkAtNextToLast ==
    NPushed = pr.cap - 1 =>
        /\ pr.buf[pr.cap - 2].type = "Link"
        /\ pr.write_index = 0

\* C1 (amended): for a Producer of capacity C >= 2 that starts empty, the
\* first k <= C-2 pushes fill slots 0 .. k-1 in order and leave the cursor at
\* k with every other slot still zero; the (C-1)-th push writes its TRB to
\* slot C-2, inserts the Link TRB at slot C-1 (the last slot) and resets the
\* cursor to 0, and returns the address of slot C-2 like any other push.
C1_RingWrap ==
    /\ NPushed <= pr.cap - 2 =>
        /\ \A i \in 0 .. NPushed - 1 : HoldsPushed(i)
        /\ \A i \in NPushed .. pr.cap - 1 : pr.buf[i] = ZeroTrb
        /\ pr.write_index = NPushed
    /\ NPushed = pr.cap - 1 =>
        /\ \A i \in 0 .. pr.cap - 2 : HoldsPushed(i)
        /\ pr.buf[pr.cap - 1] = link_trb_with_toggle
        /\ pr.write_index = 0
        /\ Len(prlog.rets) = NPushed
        /\ prlog.rets[NPushed] = Ring_addr_at(pr, pr.cap - 2)

\* the wrapping push has happened on a ring with more than the two slots
C1_Witness == pr.cap >= 3 /\ NPushed = pr.cap - 1 /\ pr.write_index = 0

----------------------------------------------------------------------------
(* C2, C3: the event ring iterator *)

\* the slot consume starts from
StartSlot == (it.start - er.head) \div 16

\* the cycle bit expected k slots after the start: the state at the start,
\* flipped once the iteration has passed the last slot
ExpectedCycle(k) == IF StartSlot + k < er.cap THEN it.ccs0 ELSE ~it.ccs0

SlotMatches(k) == er.buf[(StartSlot + k) % er.cap].cycle = ExpectedCycle(k)

\* the length of the maximal run of matching slots from the start
MaximalRunLen ==
    CHOOSE n \in 0 .. er.cap :
        /\ \A k \in 0 .. n - 1 : SlotMatches(k)
        /\ n = er.cap \/ ~SlotMatches(n)

MaximalRun == [k \in 1 .. MaximalRunLen |-> er.buf[(StartSlot + k - 1) % er.cap]]

\* C2: with no write by the xHC since consume(start_addr) was called, the
\* iteration yields the TRBs of the maximal run of slots, from the slot of
\* start_addr and wrapping at the last slot, whose cycle bit equals the
\* expected value; the first slot that does not match ends it (the call
\* returns None, it does not panic), and it yields at most ring-length TRBs.
C2_MaximalRun ==
    (it.live /\ ~it.dirty /\ StartSlot \in 0 .. er.cap - 1) =>
        /\ ~it.panicked
        /\ Len(it.yielded) <= er.cap
        /\ it.consumed => it.yielded = MaximalRun

\* C3: when consume(a) was drained and returned d and the xHC has written
\* nothing since, consume(d) yields nothing and returns d again.
C3_Idempotent ==
    (it.live /\ it.second /\ ~it.dirty) =>
        /\ ~it.panicked
        /\ it.yielded = <<>>
        /\ it.consumed => dequeue_pointer(er, it) = erlog.d

----------------------------------------------------------------------------
(* C4 .. C10: the port phase machine *)

\* the manager the last call was made on, before and after the call
PreM == IF last.unit = "DeviceManager" THEN last.dm ELSE last.hc
PostM == IF last.unit = "DeviceManager" THEN dm ELSE hc

\* the constructor's value of that manager
NewM == IF last.unit = "DeviceManager" THEN DeviceManager_new ELSE HostController_new

\* the last call handled a PortStatusChange for a port that has a phase
HandledPortStatusChange ==
    last.event.type = "PortStatusChange" /\ last.event.port_id \in TablePorts

\* the last call handled a successful CommandCompletion for command cmd
HandledCompletionOf(cmd) ==
    /\ last.event.type = "CommandCompletion"
    /\ last.event.code = "Success"
    /\ last.event.cmd = cmd

NothingChanged == dm = last.dm /\ hc = last.hc /\ port_regs = last.port_regs

\* C4: from the initial state (every port NotConnected, no port recorded as
\* being addressed) a PortStatusChange for a port p that is now connected
\* moves p from NotConnected to Resetting, asserts port reset on p and
\* records p as the port being addressed.
C4_ConnectStartsReset ==
    (/\ HandledPortStatusChange
     /\ PreM = NewM
     /\ OwnPortsc(last.port_regs, last.event.port_id).ccs
     /\ OwnPortsc(last.port_regs, last.event.port_id).csc) =>
        /\ last.ret.kind = "Ok"
        /\ PostM.port_phases[last.event.port_id] = "Resetting"
        /\ OwnPortsc(port_regs, last.event.port_id).pr
        /\ PostM.addressing_port = last.event.port_id

\* the EnableSlot command the handlers build
EnableSlotTrb == Trb("EnableSlot", FALSE, 0, FALSE, 0)

\* The last call issued exactly one EnableSlot command: HostController
\* pushes it on its Command Ring and rings doorbell 0; DeviceManager owns no
\* Command Ring and hands the TRB to its caller.
IssuedEnableSlot ==
    IF last.unit = "HostController"
    THEN hc.cr = HC_push(last.hc.cr, EnableSlotTrb) /\ hc.rung = last.hc.rung + 1
    ELSE last.ret.cmd = Some(EnableSlotTrb)

IssuedNothing ==
    IF last.unit = "HostController"
    THEN hc.cr = last.hc.cr /\ hc.rung = last.hc.rung
    ELSE last.ret.cmd = None

\* C5: for a port in Resetting, a PortStatusChange at which the port is
\* enabled and its port-reset-change is set moves the port to EnablingSlot
\* and issues exactly one EnableSlot command, the doorbell rung after the
\* push; otherwise the port stays in Resetting and no TRB is issued.
C5_ResetCompletion ==
    (/\ HandledPortStatusChange
     /\ PreM.port_phases[last.event.port_id] = "Resetting") =>
        LET p == last.event.port_id
            own == OwnPortsc(last.port_regs, p)
        IN  /\ last.ret.kind = "Ok"
            /\ IF own.ped /\ own.prc
               THEN PostM.port_phases[p] = "EnablingSlot" /\ IssuedEnableSlot
               ELSE PostM.port_phases[p] = "Resetting" /\ IssuedNothing

\* no port is bound to slot s
Unbound(m, s) == \A i \in PortIdx : m.port_to_slot[i] # s

\* C6: when the port p being addressed is in EnablingSlot and a successful
\* completion of EnableSlot reports an unbound slot s, then p is bound to s
\* and in AddressingDevice, a Device and an Input Context are allocated,
\* DCBAA entry s points to the Device Context, a Driver with an endpoint-0
\* Transfer Ring is registered for s, and the command handed back is an
\* AddressDevice TRB with slot id s and the address of the Input Context.
C6_SlotEnabled ==
    (/\ last.unit = "DeviceManager"
     /\ HandledCompletionOf("EnableSlot")
     /\ last.dm.addressing_port # 0
     /\ last.dm.port_phases[last.dm.addressing_port] = "EnablingSlot"
     /\ Unbound(last.dm, last.event.slot_id)) =>
        LET p == last.dm.addressing_port
            s == last.event.slot_id
        IN  /\ last.ret.kind = "Ok"
            /\ dm.port_to_slot[p] = s
            /\ dm.port_phases[p] = "AddressingDevice"
            /\ dm.drivers[s].present /\ dm.drivers[s].ep0
            /\ dm.drivers[s].dev_ctx # 0 /\ dm.drivers[s].inp_ctx # 0
            /\ dm.drivers[s].dev_ctx # dm.drivers[s].inp_ctx
            /\ dm.dcbaa[s] = dm.drivers[s].dev_ctx
            /\ last.ret.cmd = Some(Trb("AddressDevice", FALSE, dm.drivers[s].inp_ctx, FALSE, s))

\* C7: when the port p being addressed is in AddressingDevice and a
\* successful completion of AddressDevice arrives, then if its slot is the
\* one recorded for p the port moves to InitializingDevice and the Driver's
\* invoke_init has run, and if not the handler returns an error and the
\* phase stays AddressingDevice.
C7_DeviceAddressed ==
    (/\ last.unit = "DeviceManager"
     /\ HandledCompletionOf("AddressDevice")
     /\ last.dm.addressing_port # 0
     /\ last.dm.port_phases[last.dm.addressing_port] = "AddressingDevice") =>
        LET p == last.dm.addressing_port
            s == last.event.slot_id
        IN  IF last.dm.port_to_slot[p] = s
            THEN /\ last.ret.kind = "Ok"
                 /\ dm.port_phases[p] = "InitializingDevice"
                 /\ dm.drivers[s].state # "Uninvoked"
            ELSE /\ last.ret.kind = "Err"
                 /\ dm.port_phases[p] = "AddressingDevice"

\* a successful completion of EnableSlot was handled while the port the
\* handler looks at was NotConnected, or while it had no port to look at
EnableSlotWhileNotConnected ==
    /\ HandledCompletionOf("EnableSlot")
    /\ \/ last.unit = "DeviceManager" /\ last.dm.addressing_port = 0
       \/ PreM.port_phases[PreM.addressing_port] = "NotConnected"

LatePhases ==
    { "EnablingSlot", "AddressingDevice", "InitializingDevice",
      "ConfiguringEndpoints", "Configured" }

\* C9: a PortStatusChange for a port whose phase is EnablingSlot,
\* AddressingDevice, InitializingDevice, ConfiguringEndpoints or Configured
\* returns InvalidPortPhase and leaves everything unchanged: the phases,
\* the addressing-port marker, the port-to-slot map, the drivers, the rings
\* and the port registers.
C9_LateStatusChange ==
    (/\ HandledPortStatusChange
     /\ PreM.port_phases[last.event.port_id] \in LatePhases) =>
        /\ last.ret = Err("InvalidPortPhase")
        /\ NothingChanged

\* a late event was handled for a port whose register reports a finished
\* reset, where a handler that went on would have acted
C9_Witness ==
    /\ HandledPortStatusChange
    /\ PreM.port_phases[last.event.port_id] \in LatePhases
    /\ last.port_regs[last.event.port_id] = ResetDone
    /\ last.ret.kind = "Err"

MidAddress == { "Resetting", "EnablingSlot", "AddressingDevice" }

\* at most one port is mid-address, and it is the recorded addressing port
OnePortMidAddress(m) ==
    \A i \in PortIdx : m.port_phases[i] \in MidAddress => m.addressing_port = i

\* C10: at most one port is in a phase from Resetting through
\* AddressingDevice and it is the recorded addressing port (the handlers
\* of DeviceManager keep it so); and while some port is being addressed, a
\* PortStatusChange for a different, connected port in NotConnected is
\* rejected with an error and leaves that port NotConnected and the marker
\* unchanged.
C10_OnePortAtATime ==
    (/\ last.unit = "DeviceManager"
     /\ last.event.type # "None"
     /\ OnePortMidAddress(last.dm)) =>
        /\ OnePortMidAddress(dm)
        /\ (/\ HandledPortStatusChange
            /\ last.dm.addressing_port # 0
            /\ last.dm.addressing_port # last.event.port_id
            /\ last.dm.port_phases[last.dm.addressing_port] \in MidAddress
            /\ last.dm.port_phases[last.event.port_id] = "NotConnected"
            /\ OwnPortsc(last.port_regs, last.event.port_id).ccs) =>
               /\ last.ret.kind = "Err"
               /\ dm.port_phases[last.event.port_id] = "NotConnected"
               /\ dm.addressing_port = last.dm.addressing_port

----------------------------------------------------------------------------
(* What the handlers do keep, stated next to the properties above *)

\* A manager fresh from its constructor ignores every PortStatusChange: the
\* handler returns Ok(None) and changes nothing.
FreshManagerIgnoresStatusChange ==
    (HandledPortStatusChange /\ PreM = NewM) =>
        last.ret = Ok(None) /\ NothingChanged

\* The transitions out of Resetting, with the register entry the handlers
\* read (entry port_id) in place of the port's own register set.
ResetCompletionAsIndexed ==
    (/\ HandledPortStatusChange
     /\ PreM.port_phases[last.event.port_id] = "Resetting") =>
        LET p == last.event.port_id
            read == last.port_regs[p]
        IN  /\ last.ret.kind = "Ok"
            /\ IF read.ped /\ read.prc
               THEN PostM.port_phases[p] = "EnablingSlot" /\ IssuedEnableSlot
               ELSE PostM.port_phases[p] = "Resetting" /\ IssuedNothing

\* The effects of a successful EnableSlot completion when entry slot_id of
\* port_to_slot is empty and the port is not Full-Speed.
SlotEnabledWhenLookupPasses ==
    (/\ last.unit = "DeviceManager"
     /\ HandledCompletionOf("EnableSlot")
     /\ last.dm.addressing_port # 0
     /\ last.dm.port_phases[last.dm.addressing_port] = "EnablingSlot"
     /\ Unbound(last.dm, last.event.slot_id)
     /\ last.dm.port_to_slot[last.event.slot_id] = 0
     /\ ~get_max_packet_size_panics(last.event.speed)) =>
        LET p == last.dm.addressing_port
            s == last.event.slot_id
        IN  /\ dm.port_to_slot[p] = s
            /\ dm.port_phases[p] = "AddressingDevice"
            /\ dm.drivers[s].present /\ dm.drivers[s].ep0
            /\ dm.dcbaa[s] = dm.drivers[s].dev_ctx
            /\ last.ret = Ok(Some(Trb("AddressDevice", FALSE, dm.drivers[s].inp_ctx, FALSE, s)))

\* The handlers of DeviceManager keep at most one port mid-address, and
\* reject a second port whose register entry, as the handlers index it,
\* reports a connection.
OnePortAtATimeAsIndexed ==
    (/\ last.unit = "DeviceManager"
     /\ last.event.type # "None"
     /\ OnePortMidAddress(last.dm)) =>
        /\ OnePortMidAddress(dm)
        /\ (/\ HandledPortStatusChange
            /\ last.dm.addressing_port # 0
            /\ last.dm.addressing_port # last.event.port_id
            /\ last.dm.port_phases[last.dm.addressing_port] \in MidAddress
            /\ last.dm.port_phases[last.event.port_id] = "NotConnected"
            /\ last.port_regs[last.event.port_id].ccs) =>
               /\ last.ret = Err("InvalidPortPhase")
               /\ NothingChanged

----------------------------------------------------------------------------
(* C11 .. C13: the port-to-slot map and the Driver table *)

\* the ports bound to slot s
PortsOf(m, s) == { i \in PortIdx : m.port_to_slot[i] = s }

\* the errors of a binding that collides with an existing one
MappingCollisionErrors ==
    { "PortAlreadyMappedToSlot", "DeviceAlreadyAllocatedForSlot", "SlotAlreadyUsed" }

\* the last call was an attempt to bind port AttemptPort to slot AttemptSlot:
\* a call of address_device or assign_slot_and_addr_to_device, made directly
\* or by the handler of a successful completion of EnableSlot while the
\* port being addressed is in EnablingSlot
BindAttempt ==
    \/ last.event.type = "Bind"
    \/ /\ HandledCompletionOf("EnableSlot")
       /\ PreM.addressing_port # 0
       /\ PreM.port_phases[PreM.addressing_port] = "EnablingSlot"
AttemptPort ==
    IF last.event.type = "Bind" THEN last.event.port_id ELSE PreM.addressing_port
AttemptSlot == last.event.slot_id

C12_PortNotRebound ==
    (/\ BindAttempt
     /\ PreM.port_to_slot[AttemptPort] # 0
     /\ PreM.port_to_slot[AttemptPort] # AttemptSlot) =>
        /\ last.ret.kind = "Err"
        /\ last.ret.err \in MappingCollisionErrors
        /\ PostM.port_to_slot[AttemptPort] = PreM.port_to_slot[AttemptPort]

\* C13: in DeviceManager an EnableSlot completion that reports a slot with
\* a registered Driver is rejected with an error, and no call ever replaces
\* or changes a registered Driver.
C13_DriverNotReplaced ==
    (last.unit = "DeviceManager" /\ last.event.type # "None") =>
        /\ \A s \in SlotIds :
              last.dm.drivers[s].present => dm.drivers[s] = last.dm.drivers[s]
        /\ (/\ last.event.type \in { "CommandCompletion", "Bind" }
            /\ last.event.cmd = "EnableSlot"
            /\ last.dm.drivers[last.event.slot_id].present) =>
               last.ret.kind = "Err"

\* a slot with a Driver was reported while a port was waiting for its slot,
\* and no port was bound to the entry set_port_to_slot looks at
C13_Witness ==
    /\ last.unit = "DeviceManager"
    /\ BindAttempt
    /\ last.dm.drivers[AttemptSlot].present
    /\ last.dm.port_to_slot[AttemptSlot] = 0
    /\ last.ret = Err("DeviceAlreadyAllocatedForSlot")

----------------------------------------------------------------------------
(* C14 .. C19: the Driver *)

\* the address of slot j of the Transfer Ring: TRBs are 16 bytes
SlotAddr(j) == TrHead + 16 * j

\* the last call issued a control transfer; its first TRB went to slot
\* IssuedAt
IssuedTransfer ==
    /\ drvlog.op \in { "invoke_init", "on_control_completed", "transfer_event" }
    /\ drv.tr.write_index # drvlog.pre.tr.write_index
IssuedAt == drvlog.pre.tr.write_index

\* the last call handled the Transfer Event of the device descriptor read
\* that invoke_init issued as the first transfer of the ring: the pointer
\* is that of its Data Stage TRB, the one with interrupt-on-completion
HandledDeviceDescEvent ==
    /\ drvlog.op = "transfer_event"
    /\ drvlog.overwrites = 0
    /\ drvlog.pre.state = "GetConfigDesc"
    /\ drvlog.pre.tr.write_index = 3
    /\ drvlog.te = Te(SlotAddr(1), DEFAULT_CONTROL, 0)

\* C14: GetDescriptor(Device, 0) on endpoint 0 writes exactly three TRBs,
\* Setup, Data, Status in this order, and when its Transfer Event is handled
\* the issuer map holds, under the address of the Setup Stage TRB, a
\* SetupData with request GetDescriptor, value Device << 8 and length 18.
C14_RoundTrip ==
    /\ (drvlog.op = "invoke_init" /\ drvlog.ret.kind = "Ok") =>
          /\ drv.tr.write_index = IssuedAt + 3
          /\ drv.tr.buf[IssuedAt].type = "SetupStage"
          /\ drv.tr.buf[IssuedAt + 1].type = "DataStage"
          /\ drv.tr.buf[IssuedAt + 2].type = "StatusStage"
          /\ \A j \in 0 .. MaxTrCap - 1 :
                j \notin IssuedAt .. IssuedAt + 2 => drv.tr.buf[j] = drvlog.pre.tr.buf[j]
    /\ HandledDeviceDescEvent =>
          /\ drvlog.ret.kind = "Ok"
          /\ SlotAddr(0) \in DOMAIN drvlog.pre.issuers
          /\ LET got == SetupData_try_from(drvlog.pre.issuers[SlotAddr(0)])
             IN  /\ got.ok
                 /\ got.setup.request = RequestCode_GetDescriptor
                 /\ got.setup.value = DescriptorType_Device * 256
                 /\ got.setup.length = 18

\* C15: the key a control transfer adds to the issuer map is the address of
\* the slot its Setup Stage TRB was written to, and the value holds the
\* setup packet of that TRB.
C15_IssuerKey ==
    IssuedTransfer =>
        /\ DOMAIN drv.issuers = DOMAIN drvlog.pre.issuers \cup { SlotAddr(IssuedAt) }
        /\ SetupData_try_from(drv.issuers[SlotAddr(IssuedAt)]).ok
        /\ \A f \in { "request_type", "request", "value", "index", "length" } :
              drv.issuers[SlotAddr(IssuedAt)][f] = drv.tr.buf[IssuedAt][f]

\* C16: a Transfer Event whose pointer is no key of the issuer map makes
\* transfer_event return an error, whatever TRB lies there; the state is
\* not advanced and no control transfer is issued.
C16_UnknownIssuer ==
    (drvlog.op = "transfer_event" /\ drvlog.te.ptr \notin DOMAIN drvlog.pre.issuers) =>
        /\ drvlog.ret.kind = "Err"
        /\ drv.state = drvlog.pre.state
        /\ drv.tr = drvlog.pre.tr
        /\ drv.issuers = drvlog.pre.issuers

\* the last call handled a Transfer Event that points to an issuer address
\* where a Setup Stage TRB lies
HandledSetupIssuer ==
    /\ drvlog.op = "transfer_event"
    /\ drvlog.te.ptr \in DOMAIN drvlog.pre.issuers
    /\ read_trb(drvlog.pre.tr, drvlog.te.ptr).type = "SetupStage"

\* C17: the value the issuer map holds for a transfer equals the Setup
\* Stage TRB as written to the ring; a Transfer Event at an issuer address
\* advances the state when the memory there is as it was at issuance, and
\* does not when the memory has changed.
C17_TamperGuard ==
    /\ IssuedTransfer =>
          \A k \in DOMAIN drv.issuers \ DOMAIN drvlog.pre.issuers :
              drv.issuers[k] = drv.tr.buf[IssuedAt]
    /\ (/\ drvlog.op = "transfer_event"
        /\ drvlog.te.ptr \in DOMAIN drvlog.pre.issuers
        /\ drvlog.pre.state \notin { "Uninvoked", "Ready" }) =>
          IF read_trb(drvlog.pre.tr, drvlog.te.ptr) = drvlog.issued[drvlog.te.ptr]
          THEN drvlog.ret.kind = "Ok" /\ drv.state = State_next(drvlog.pre.state)
          ELSE drv.state = drvlog.pre.state

\* the last call handled a Transfer Event that points to a Data Stage TRB
HandledDataStage ==
    /\ drvlog.op = "transfer_event"
    /\ read_trb(drvlog.pre.tr, drvlog.te.ptr).type = "DataStage"
\* the descriptor buffer recorded for the endpoint of that event
RecordedBuf == drvlog.pre.desc_bufs[EndpointId_as_index(drvlog.te.ep)]

\* C18: a Transfer Event that points to a Data Stage TRB returns
\* DescriptorBufferNotAllocated when no buffer is recorded for its
\* endpoint and DescriptorLost when the TRB's buffer pointer differs from
\* the address of the recorded buffer, and leaves the Driver as it was.
C18_DescriptorBufferChecked ==
    HandledDataStage =>
        /\ ~RecordedBuf.present =>
              drvlog.ret = Err("DescriptorBufferNotAllocated") /\ drv = drvlog.pre
        /\ (/\ RecordedBuf.present
            /\ RecordedBuf.addr # read_trb(drvlog.pre.tr, drvlog.te.ptr).ptr) =>
              drvlog.ret = Err("DescriptorLost") /\ drv = drvlog.pre

\* the event pointed to the Data Stage TRB of a buffer that a later
\* descriptor read has replaced
C18_Witness ==
    /\ HandledDataStage
    /\ RecordedBuf.present
    /\ RecordedBuf.addr # read_trb(drvlog.pre.tr, drvlog.te.ptr).ptr
    /\ drvlog.ret = Err("DescriptorLost")

\* C19: every call leaves the state where it was or moves it one step
\* along Uninvoked, GetConfigDesc, ReadSetConfig, SetEndpoint, Ready;
\* invoke_init on a Driver that is not Uninvoked returns an error and
\* leaves the state; a control completion on an Uninvoked Driver returns
\* an error, and in Ready it leaves the state Ready.
C19_ForwardSteps ==
    /\ drv.state \in { drvlog.pre.state, State_next(drvlog.pre.state) }
    /\ (drvlog.op = "invoke_init" /\ drvlog.pre.state # "Uninvoked") =>
          drvlog.ret.kind = "Err" /\ drv.state = drvlog.pre.state
    /\ (drvlog.op = "on_control_completed" /\ drvlog.pre.state = "Uninvoked") =>
          drvlog.ret.kind = "Err"
    /\ (drvlog.op = "on_control_completed" /\ drvlog.pre.state = "Ready") =>
          drv.state = "Ready"

\* a control completion took the Driver from SetEndpoint to Ready
C19_Witness ==
    /\ drvlog.op = "on_control_completed"
    /\ drvlog.pre.state = "SetEndpoint"
    /\ drv.state = "Ready"

\* as coded, the key a control transfer adds is Ring::addr_at of the index
\* of its second TRB: the head plus that index times the size of the TRB
\* enum
IssuerKeyAsCoded ==
    IssuedTransfer =>
        DOMAIN drv.issuers =
            DOMAIN drvlog.pre.issuers \cup { TrHead + elem_size * (IssuedAt + 1) }

\* as coded, a Transfer Event whose pointer is no issuer key never returns
\* Ok and never changes the Driver; the handler panics exactly when a Data
\* Stage TRB with the recorded buffer lies at the pointer
UnknownIssuerNeverAdvances ==
    (drvlog.op = "transfer_event" /\ drvlog.te.ptr \notin DOMAIN drvlog.pre.issuers) =>
        /\ drvlog.ret.kind \in { "Err", "Panic" }
        /\ drv = drvlog.pre
        /\ drvlog.ret.kind = "Panic" => HandledDataStage

----------------------------------------------------------------------------
(* C20: the Device Context Base Address Array *)

\* the last call was register(i, device) on the array last.dm.dcbaa
Registered == last.event.type = "register"
RegI == last.event.i

\* C20: register(0, ptr) fails and leaves the array as it was; for i in
\* 1 .. capacity - 1 the first register(i, ptr) succeeds and changes entry
\* i only, and a register(i, ptr) for an entry that is registered already
\* does not succeed.
C20_IndexGuard ==
    Registered =>
        /\ RegI = 0 => last.ret.kind # "Ok" /\ dm.dcbaa = last.dm.dcbaa
        /\ (RegI \in DOMAIN last.dm.dcbaa \ { 0 } /\ last.dm.dcbaa[RegI] = 0) =>
              /\ last.ret.kind = "Ok"
              /\ dm.dcbaa = [last.dm.dcbaa EXCEPT ![RegI] = last.event.device]
        /\ (RegI \in DOMAIN last.dm.dcbaa \ { 0 } /\ last.dm.dcbaa[RegI] # 0) =>
              last.ret.kind # "Ok"

\* as coded, register guards index 0 (and the bounds of the array) only:
\* every other call succeeds and writes entry i, registered before or not
RegisterAsCoded ==
    Registered =>
        /\ RegI = 0 => last.ret = Panic /\ dm.dcbaa = last.dm.dcbaa
        /\ RegI \in DOMAIN last.dm.dcbaa \ { 0 } =>
              /\ last.ret.kind = "Ok"
              /\ dm.dcbaa = [last.dm.dcbaa EXCEPT ![RegI] = last.event.device]
        /\ RegI \notin DOMAIN last.dm.dcbaa =>
              last.ret = Panic /\ dm.dcbaa = last.dm.dcbaa

\* through address_device, the only caller of register, an entry of the
\* array that is set is never written again
EntryRegisteredOnce ==
    [][\A i \in DOMAIN dm.dcbaa : dm.dcbaa[i] # 0 => dm.dcbaa'[i] = dm.dcbaa[i]]_vars

----------------------------------------------------------------------------
(* C21 .. C23: the Producer ring *)

\* the slot the k-th push of a Producer wrote to: the cursor starts at 0
\* and returns to 0 from the slot before the last
PushSlot(k) == (k - 1) % (pr.cap - 1)

\* C21: every push, the one that wraps included, returns the physical
\* address of the slot it wrote its TRB to: the head of the ring plus 16
\* times the index of the slot.
C21_PushReturnsSlotAddress ==
    \A k \in 1 .. NPushed :
        /\ k = NPushed => pr.buf[PushSlot(k)] = set_cycle_bit(prlog.pushed[k], TRUE)
        /\ prlog.rets[k] = pr.head + 16 * PushSlot(k)

\* C22: the last slot of a Producer holds its initial zeros or a Link TRB,
\* never a TRB of a caller, and the write cursor is in 0 .. C-2 whenever
\* push is entered.
C22_LastSlotReserved ==
    /\ pr.buf[pr.cap - 1] = ZeroTrb \/ pr.buf[pr.cap - 1].type = "Link"
    /\ \A t \in CallerTrbs, b \in BOOLEAN : pr.buf[pr.cap - 1] # set_cycle_bit(t, b)
    /\ pr.write_index \in 0 .. pr.cap - 2

\* the ring has wrapped and has been pushed to again
C22_Witness ==
    /\ pr.cap >= 3
    /\ NPushed > pr.cap - 1
    /\ pr.buf[pr.cap - 1].type = "Link"
    /\ pr.write_index = 1

\* C23: every Link TRB in a Producer ring points back to slot 0 of the
\* ring (its ring segment pointer is the head address of the ring) and has
\* the toggle-cycle flag set.
C23_LinkPointsToHead ==
    \A i \in 0 .. pr.cap - 1 :
        pr.buf[i].type = "Link" => pr.buf[i].param = pr.head /\ pr.buf[i].tc

\* as coded, the Link TRB has the toggle-cycle flag and nothing else: its
\* ring segment pointer and its cycle bit are zero, and it lies in the last
\* slot only
LinkAsCoded ==
    \A i \in 0 .. pr.cap - 1 :
        pr.buf[i].type = "Link" =>
            /\ i = pr.cap - 1
            /\ pr.buf[i].tc /\ pr.buf[i].param = 0 /\ ~pr.buf[i].cycle

----------------------------------------------------------------------------
(* C24: the length of the data buffer of a control transfer *)

\* the last call was control_transfer with a data buffer
TransferWithBuffer == drvlog.op = "control_transfer" /\ drvlog.buf.present
TransferEndpoint == drvlog.te.ep
TransferPushedNothing ==
    drv.tr = drvlog.pre.tr /\ drv.issuers = drvlog.pre.issuers

GetDescriptorLengthAsCoded ==
    drvlog.op = "get_descriptor" =>
        (drvlog.ret = Panic <=> drvlog.buf.len > 65535)

----------------------------------------------------------------------------
(* C25, C26: the bring-up of the xHC *)

\* what the bring-up has done and observed so far, in order
Did(what) == \E i \in 1 .. Len(boot.trace) : boot.trace[i] = what
Times(what) == Cardinality({ i \in 1 .. Len(boot.trace) : boot.trace[i] = what })
\* a was done, and before b if b was done at all
Before(a, b) ==
    \A j \in 1 .. Len(boot.trace) :
        boot.trace[j] = b => \E i \in 1 .. j - 1 : boot.trace[i] = a

\* C25: the ownership handshake is performed exactly once and has finished
\* before the host controller reset bit is set; the Command Ring pointer
\* and the Event Ring registers are programmed only after the reset has
\* completed, and run/stop is set only after that.
C25_BringUpOrder ==
    /\ Times("own") <= 1 /\ Times("owned") <= 1
    /\ Before("own", "owned")
    /\ Before("owned", "hcrst_set")
    /\ Before("reset_done", "crcr") /\ Before("reset_done", "erst")
    /\ Before("crcr", "rs_set") /\ Before("erst", "rs_set")
    /\ boot.pc = "running" =>
          /\ Times("own") = 1 /\ Times("owned") = 1 /\ Times("hcrst_set") = 1
          /\ boot.crcr /\ boot.erst /\ boot.run_stop

\* the controller runs, after the firmware handed it over on request
C25_Witness ==
    /\ boot.pc = "running"
    /\ Did("requested")
    /\ boot.os /\ ~boot.bios

\* C26: the host controller reset bit is set only once the halted bit has
\* been observed set, after run/stop was cleared if the controller was not
\* halted; reset returns only after the reset bit has been observed clear
\* and, after that, the controller-not-ready bit has been observed clear.
C26_ResetPhases ==
    /\ Before("halted_seen", "hcrst_set")
    /\ Did("rs_cleared") => Before("rs_cleared", "halted_seen")
    /\ Before("hcrst_set", "hcrst_clear_seen")
    /\ Before("hcrst_clear_seen", "cnr_clear_seen")
    /\ Before("cnr_clear_seen", "reset_done")
    /\ Times("hcrst_set") <= 1

\* reset has returned on a controller that was running and had to be halted
C26_Witness ==
    /\ Did("reset_done")
    /\ Did("rs_cleared")
    /\ boot.pc = "dcbaa"

----------------------------------------------------------------------------
(* C27: the interrupt handler *)

\* C27: every call of the xHCI interrupt handler puts at most one message
\* into the queue and writes the end-of-interrupt register before it
\* returns, also when the queue is full.
C27_HandlerAcknowledges ==
    intr.pc # "off" /\ intr.isr.ran => intr.isr.pushed <= 1 /\ intr.isr.eoi

\* what the handler does: it acknowledges exactly when the message went
\* into the queue, and the interrupt it did not acknowledge stays in
\* service at the local APIC
HandlerAsCoded ==
    intr.pc # "off" /\ intr.isr.ran =>
        /\ intr.isr.pushed = (IF intr.isr.pre < IntQueCap THEN 1 ELSE 0)
        /\ intr.isr.eoi = (intr.isr.pre < IntQueCap)
        /\ ~intr.isr.eoi => intr.in_service

\* the handler touches nothing but the queue and the local APIC
HandlerTouchesNothingElse ==
    [][intr.pc # "off" /\ intr'.isr # intr.isr =>
          UNCHANGED <<prVars, erVars, portVars, drvVars, boot>>]_vars

----------------------------------------------------------------------------
(* C28, C29: the initialization of a device *)

\* C28: once invoke_init has succeeded and the xHC answers every control
\* transfer of the driver with a successful Transfer Event and valid
\* descriptor data, the driver eventually reaches Ready, and no handler
\* aborts.
C28_InitReachesReady ==
    (drvlog.op = "invoke_init" /\ drvlog.ret.kind = "Ok")
        ~> (drv.state = "Ready" /\ drvlog.ret.kind # "Panic")

\* what happens instead: the first answer ends the kernel, the driver
\* being in phase GetConfigDesc
InitStopsAtFirstAnswer ==
    "device" \in DOMAIN drvlog /\ drvlog.op = "transfer_event" =>
        /\ drvlog.ret = Panic
        /\ drvlog.pre.state = "GetConfigDesc" /\ drv = drvlog.pre

\* the Setup Stage TRB a GetDescriptor request of the driver has left in
\* slot j of the Transfer Ring, and the buffer recorded for it
IssuedGetDescriptor(j, desc_type, buflen) ==
    /\ drv.tr.buf[j].type = "SetupStage"
    /\ drv.tr.buf[j].request = RequestCode_GetDescriptor
    /\ drv.tr.buf[j].value = desc_type * 256
    /\ drv.tr.buf[j].length = buflen
    /\ drv.tr.buf[j + 1].type = "DataStage" /\ drv.tr.buf[j + 1].len = buflen
    /\ drv.tr.buf[j + 1].ptr = drv.desc_bufs[EndpointId_as_index(DEFAULT_CONTROL)].addr
    /\ drv.desc_bufs[EndpointId_as_index(DEFAULT_CONTROL)].len = buflen

\* C29: invoke_init issues GetDescriptor(Device) with an 18-byte buffer on
\* endpoint 0; when the Transfer Event of that transfer is handled and the
\* buffer holds a valid device descriptor, the driver records the number of
\* configurations and issues GetDescriptor(Configuration) on endpoint 0
\* into a new, larger buffer.
C29_InitStepOne ==
    "device" \in DOMAIN drvlog =>
        /\ drvlog.op = "invoke_init" /\ drvlog.ret.kind = "Ok" =>
              IssuedGetDescriptor(0, DescriptorType_Device, DeviceDescriptor_SIZE)
        /\ drvlog.op = "transfer_event" /\ drvlog.pre.state = "GetConfigDesc" =>
              /\ drvlog.ret.kind = "Ok"
              /\ drv.num_configurations[EndpointId_as_index(DEFAULT_CONTROL)]
                    = drvlog.device.ncfg
              /\ \E j \in 1 .. drv.tr.cap - 2 :
                    IssuedGetDescriptor(j, DescriptorType_Configuration, ConfigBufLen)
              /\ ConfigBufLen > DeviceDescriptor_SIZE
              /\ drv.desc_bufs[EndpointId_as_index(DEFAULT_CONTROL)].addr
                    # drvlog.pre.desc_bufs[EndpointId_as_index(DEFAULT_CONTROL)].addr

\* the first half holds: invoke_init leaves the three TRBs of
\* GetDescriptor(Device) for 18 bytes on the ring of endpoint 0
InvokeInitIssuesGetDeviceDesc ==
    "device" \in DOMAIN drvlog /\ drvlog.op = "invoke_init" /\ drvlog.ret.kind = "Ok" =>
        /\ IssuedGetDescriptor(0, DescriptorType_Device, DeviceDescriptor_SIZE)
        /\ drv.state = "GetConfigDesc"

----------------------------------------------------------------------------
(* C30: process_events over many calls *)

\* C30: over any sequence of process_events calls interleaved with the xHC
\* writing events, every event the xHC has made available is handed to
\* on_event exactly once and in ring order (the xHC numbers its events in
\* the order it writes them), and after each call ERDP holds the address
\* of the slot at which the next call starts, its low bits as they were.
C30_EveryEventHandedOnce ==
    /\ \A i \in 1 .. Len(erlog.handed) : erlog.handed[i].param = i
    /\ erlog.done /\ erlog.clean =>
          /\ Len(erlog.handed) = xhc.count
          /\ xhc.erdp = er.head + 16 * xhc.enq

\* what the calls do: they go through the events in ring order and hand
\* none of them on
EventsSeenNotHanded ==
    /\ erlog.handed = <<>>
    /\ erlog.done =>
          \A i \in 1 .. Len(erlog.yielded) - 1 :
              erlog.yielded[i + 1].param = erlog.yielded[i].param + 1

----------------------------------------------------------------------------
(* C31: the handler and the loop *)

----------------------------------------------------------------------------
(* C32: the cycle bit of a Producer across a wrap *)

\* the laps a Producer has completed, and the cycle bit of lap n: the
\* producer cycle state starts at 1 and is inverted by every wrap
Laps == NPushed \div (pr.cap - 1)
LapBit(n) == n % 2 = 0

\* C32: each time a Producer wraps, the Link TRB it inserts carries the
\* cycle bit of the lap that ends and the producer cycle state is then
\* inverted, so that the TRBs of a lap carry the opposite cycle bit to
\* those of the lap before.
C32_CycleBitAcrossWrap ==
    /\ producer_cycle_state(pr) = LapBit(Laps)
    /\ Laps >= 1 =>
          /\ pr.buf[pr.cap - 1].type = "Link"
          /\ pr.buf[pr.cap - 1].cycle = LapBit(Laps - 1)
    /\ \A k \in 1 .. NPushed :
          k + (pr.cap - 1) > NPushed =>
              pr.buf[PushSlot(k)].cycle = LapBit((k - 1) \div (pr.cap - 1))

\* as coded, the producer cycle state is 1 for ever: the TRBs of every lap
\* carry cycle bit 1, and the Link TRB carries 0
CycleBitAsCoded ==
    /\ producer_cycle_state(pr)
    /\ \A k \in 1 .. NPushed : pr.buf[PushSlot(k)].cycle
    /\ Laps >= 1 => ~pr.buf[pr.cap - 1].cycle

----------------------------------------------------------------------------
(* C33: a full Producer ring *)

\* C33: a Producer never writes over a TRB the xHC has not consumed.  No
\* TRB is consumed while the ring is only pushed to, so the TRBs of the
\* first lap, which fill every usable slot, stay where they were written
\* whatever is pushed after them.
C33_NoOverwrite ==
    \A k \in 1 .. NPushed :
        k <= pr.cap - 1 =>
            pr.buf[PushSlot(k)] = set_cycle_bit(prlog.pushed[k], producer_cycle_state(pr))

\* as coded, push writes at the cursor whatever lies there: each slot holds
\* the TRB of the last push that came to it, and every push returned an
\* address
PushOverwrites ==
    \A k \in 1 .. NPushed :
        /\ k + (pr.cap - 1) > NPushed =>
              pr.buf[PushSlot(k)] = set_cycle_bit(prlog.pushed[k], producer_cycle_state(pr))
        /\ prlog.rets[k] \in Nat

----------------------------------------------------------------------------
(* C34: Transfer Events that report a failure *)

\* C34: a Transfer Event whose completion code is neither Success nor
\* ShortPacket is never treated as a completion: handling it does not
\* advance the initialization state, does not take a descriptor buffer and
\* does not issue a control transfer.
C34_FailedTransferIsNoCompletion ==
    (drvlog.op = "transfer_event"
     /\ drvlog.te.code \notin { "Success", "ShortPacket" }) =>
        /\ drv.state = drvlog.pre.state
        /\ drv.desc_bufs = drvlog.pre.desc_bufs
        /\ drv.tr = drvlog.pre.tr /\ drv.issuers = drvlog.pre.issuers

\* as coded, the completion code changes nothing: the handler does with an
\* event what it does with the same event reporting Success
CompletionCodeIgnored ==
    drvlog.op = "transfer_event" =>
        \E tail \in Tails, content \in Contents :
            LET r == transfer_event(drvlog.pre,
                                    [drvlog.te EXCEPT !.code = "Success", !.tail = tail],
                                    content)
            IN  r.d = drv /\ r.ret = drvlog.ret

----------------------------------------------------------------------------
(* C35: the outcome of the ownership handshake *)

\* C35: with a Legacy Support capability present, on return from the
\* ownership handshake the BIOS-owned semaphore is clear and the OS-owned
\* semaphore is set, whatever the two bits were on entry.
C35_HandshakeOutcome ==
    boot.legsup /\ boot.pc = "reset" => ~boot.bios /\ boot.os

\* as coded, the handshake waits for the firmware only when it had to set
\* the OS-owned semaphore itself; a semaphore found set ends it at once
HandshakeAsCoded ==
    boot.legsup /\ boot.pc = "reset" =>
        /\ boot.os
        /\ Did("requested") => ~boot.bios

----------------------------------------------------------------------------
(* C36: the tables a PortStatusChange goes through *)

\* the last call was DeviceManager's handler of a PortStatusChange
PscHandled == last.unit = "DeviceManager" /\ last.event.type = "PortStatusChange"

\* C36: for every port id in 1 .. MaxPorts, handling a PortStatusChange of
\* that port indexes no table out of range, writes no phase entry but that
\* of the port and no register set but the port's own, and reads no
\* register set but the port's own.
C36_OwnEntriesOnly ==
    PscHandled =>
        LET p == last.event.port_id
        IN  /\ last.ret.kind # "Panic"
            /\ \A q \in PortIdx :
                  q # p => dm.port_phases[q] = last.dm.port_phases[q]
            /\ \A i \in PortIdx :
                  i # p - 1 => port_regs[i] = last.port_regs[i]
            /\ \A i \in PortIdx, v \in PortscValues :
                  i # p - 1 =>
                      LET r == DM_port_status_change(
                                   last.dm, [last.port_regs EXCEPT ![i] = v], p)
                      IN  r.ret = last.ret /\ r.m = dm

\* as coded, the handler takes the port id for the index of the register
\* set: it panics for port MaxPorts, and otherwise writes no register set
\* but entry p (that of port p + 1) or that of the addressing port
PortIdIsIndex ==
    PscHandled =>
        LET p == last.event.port_id
        IN  /\ last.ret.kind = "Panic" <=> p = MaxPorts
            /\ \A i \in PortIdx :
                  i \notin { p, last.dm.addressing_port } =>
                      port_regs[i] = last.port_regs[i]

----------------------------------------------------------------------------
(* C37: the life of an Issuer Map entry *)

\* the control transfers of the driver whose completion has not been
\* handled: each has its descriptor buffer recorded, and handling the
\* completion takes the buffer
Outstanding ==
    Cardinality({ i \in DOMAIN drv.desc_bufs : drv.desc_bufs[i].present })

\* C37: the Issuer Map holds entries for the control transfers in flight
\* only: it never holds more entries than there are outstanding
\* transfers, and no transfer fails with TrbIssuerMapFull.
C37_IssuersInFlightOnly ==
    /\ Cardinality(DOMAIN drv.issuers) <= Outstanding
    /\ drvlog.ret # Err("TrbIssuerMapFull")

\* as coded, no entry ever leaves the Issuer Map
IssuersNeverRemoved ==
    [][DOMAIN drv.issuers \subseteq DOMAIN drv'.issuers]_vars

----------------------------------------------------------------------------
(* C39: is_unprocessed and index_of *)

\* C39: for every slot address a = head + 16 * i of the Event Ring, the
\* head itself included, is_unprocessed(a) completes and is true exactly
\* when the cycle bit of slot i equals the consumer cycle state, and
\* index_of(a) is i.
C39_SlotAddressesIndexed ==
    \A i \in 0 .. er.cap - 1 :
        /\ EventRing_index_of(er, er.head + 16 * i) = [ok |-> TRUE, index |-> i]
        /\ is_unprocessed(er, er.head + 16 * i)
              = [ok |-> TRUE, value |-> er.buf[i].cycle = consumer_cycle_state(er)]

\* as coded, index_of fails for every slot address, and for ERDP as
\* has_unprocessed_events reads it
IndexOfFails ==
    /\ \A i \in 0 .. er.cap - 1 : ~EventRing_index_of(er, er.head + 16 * i).ok
    /\ ~is_unprocessed(er, event_ring_dequeue_pointer(xhc)).ok

(***************************************************************************)
(* C38: issuing a control transfer is all-or-nothing with respect to the   *)
(* issuer map.  When Driver::control_transfer returns TrbIssuerMapFull,    *)
(* the Transfer Ring is as it was before the call: no TRB of the transfer  *)
(* has been written and the write cursor has not moved.                    *)
(***************************************************************************)
C38_AllOrNothing ==
    drvlog.op = "control_transfer" /\ drvlog.ret = Err("TrbIssuerMapFull")
        => drv.tr = drvlog.pre.tr

\* What the code does: the three TRBs of the refused transfer are on the
\* ring, the write cursor is three slots on, and the issuer map has no
\* entry for the address of the Data Stage TRB.
IssuedBeforeInsert ==
    drvlog.op = "control_transfer" /\ drvlog.ret = Err("TrbIssuerMapFull")
        => LET w == drvlog.pre.tr.write_index
               slot(k) == (w + k) % Ring_last_index(drv.tr)
           IN  /\ drv.tr.write_index = slot(3)
               /\ drv.tr.buf[slot(0)].type = "SetupStage"
               /\ drv.tr.buf[slot(1)].type = "DataStage"
               /\ drv.tr.buf[slot(2)].type = "StatusStage"
               /\ drv.tr.buf[slot(1)].ptr = Buf(drvlog.pre.nbufs, 0).addr
               /\ Ring_addr_at(drv.tr, slot(1)) \notin DOMAIN drv.issuers
               /\ drv.issuers = drvlog.pre.issuers
               /\ Cardinality(DOMAIN drv.issuers) = IssuerCap

(***************************************************************************)
(* C40: the SetupData encoding round trip.  Decoding the two-word encoding *)
(* of a SetupData gives the SetupData back, request type, request, value,  *)
(* index and length alike, and so does converting it to a Setup Stage TRB  *)
(* and back.                                                               *)
(***************************************************************************)
C40_SetupRoundTrip ==
    drvlog.via_raw.done
        => /\ drvlog.via_raw.ok /\ drvlog.via_raw.setup = drvlog.setup
           /\ drvlog.via_trb.ok /\ drvlog.via_trb.setup = drvlog.setup

\* What the code does: request type, request and value come back.  From
\* the two words index comes back and length is the low 15 bits of index;
\* from the Setup Stage TRB index is the length and length is its low 15
\* bits.
LengthReadFromIndexBits ==
    drvlog.via_raw.done
        => /\ drvlog.via_raw.ok /\ drvlog.via_trb.ok
           /\ drvlog.via_raw.setup =
                  [drvlog.setup EXCEPT !.length = drvlog.setup.index % 32768]
           /\ drvlog.via_trb.setup =
                  [drvlog.setup EXCEPT !.index = drvlog.setup.length,
                                       !.length = drvlog.setup.length % 32768]

====
